---- MODULE Spec2Model ----
(***************************************************************************)
(* Multi-mode evaluation engine of vision-compression-project:             *)
(*   backend/eval/run_eval.py       the orchestrator (main, run_mode)      *)
(*   backend/eval/observability.py  LocalTracer (trace log, artifacts)     *)
(*   backend/eval/judge.py          rule judge, LLM judge, dispatcher      *)
(*   backend/eval/metrics.py        citation metrics, context units        *)
(*   backend/eval/modes/*.py        text_rag, optical, hybrid mode runners *)
(*   backend/app/pipeline/*.py      retry, evidence pack, result parsing   *)
(*                                                                         *)
(* Text is modelled by TLA+ strings, character by character.  Python       *)
(* floats are modelled by exact rationals [n, d] in lowest terms.  Wall    *)
(* clock readings (timestamps, latencies) are not modelled.                *)
(***************************************************************************)
EXTENDS Integers, Sequences, FiniteSets, TLC

(***************************************************************************)
(* Characters and Python's str / re primitives                             *)
(***************************************************************************)
Char(s, i) == SubSeq(s, i, i)

LowerAlpha == "abcdefghijklmnopqrstuvwxyz"
UpperAlpha == "ABCDEFGHIJKLMNOPQRSTUVWXYZ"
DigitChars == {"0", "1", "2", "3", "4", "5", "6", "7", "8", "9"}
SpaceChars == {" ", "\n", "\t"}
LowerChars == {Char(LowerAlpha, i) : i \in 1..26}
UpperChars == {Char(UpperAlpha, i) : i \in 1..26}

IsSpace(c) == c \in SpaceChars
IsDigit(c) == c \in DigitChars
\* \w of Python's re
IsWordChar(c) == c \in LowerChars \/ c \in UpperChars \/ c \in DigitChars \/ c = "_"

lower_char(c) ==
    IF c \in UpperChars
    THEN Char(LowerAlpha, CHOOSE i \in 1..26 : Char(UpperAlpha, i) = c)
    ELSE c

\* "".join(f[lo..hi]), by halves: the recursion is logarithmic in the length
RECURSIVE Join(_, _, _)
Join(f, lo, hi) ==
    IF lo > hi THEN ""
    ELSE IF lo = hi THEN f[lo]
    ELSE LET m == (lo + hi) \div 2 IN Join(f, lo, m) \o Join(f, m + 1, hi)

\* s.lower()
lower(s) == Join([i \in 1..Len(s) |-> lower_char(Char(s, i))], 1, Len(s))

\* sub in s
Contains(s, sub) ==
    \E i \in 1..(Len(s) - Len(sub) + 1) : SubSeq(s, i, i + Len(sub) - 1) = sub

IsBlank(s) == \A i \in 1..Len(s) : IsSpace(Char(s, i))

Least(S) == CHOOSE i \in S : \A j \in S : i <= j
Greatest(S) == CHOOSE i \in S : \A j \in S : j <= i

\* s.strip()
strip(s) ==
    IF IsBlank(s) THEN ""
    ELSE LET ns == {i \in 1..Len(s) : ~IsSpace(Char(s, i))}
         IN  SubSeq(s, Least(ns), Greatest(ns))

\* The pieces of s[lo..hi] between the characters of seps (re.split on a
\* character class; a run of separators yields empty pieces, which every
\* caller drops).  By halves: the last piece of the left half continues in the
\* first piece of the right half.
RECURSIVE SplitRange(_, _, _, _)
SplitRange(s, seps, lo, hi) ==
    IF lo > hi THEN <<"">>
    ELSE IF lo = hi
    THEN (IF Char(s, lo) \in seps THEN <<"", "">> ELSE <<Char(s, lo)>>)
    ELSE LET m == (lo + hi) \div 2
             l == SplitRange(s, seps, lo, m)
             r == SplitRange(s, seps, m + 1, hi)
         IN  SubSeq(l, 1, Len(l) - 1) \o <<l[Len(l)] \o r[1]>> \o Tail(r)

SplitOn(s, seps) == SplitRange(s, seps, 1, Len(s))

NonEmpty(p) == p /= ""

\* s.split(): the maximal runs of non-whitespace characters
split(s) == SelectSeq(SplitOn(s, SpaceChars), NonEmpty)

\* [x.strip() for x in re.split(r'[.!?]+', s) if x.strip()]
sentences_of(s) ==
    LET raw == SplitOn(s, {".", "!", "?"})
    IN  SelectSeq([k \in 1..Len(raw) |-> strip(raw[k])], NonEmpty)

Range(f) == {f[k] : k \in DOMAIN f}

\* first position >= i holding character c, 0 when there is none
IndexFrom(s, c, i) ==
    LET at == {j \in i..Len(s) : Char(s, j) = c}
    IN  IF at = {} THEN 0 ELSE Least(at)

\* first position >= a that holds no digit / no whitespace
digits_end(s, a) ==
    LET stop == {j \in a..Len(s) : ~IsDigit(Char(s, j))}
    IN  IF stop = {} THEN Len(s) + 1 ELSE Least(stop)

spaces_end(s, a) ==
    LET stop == {j \in a..Len(s) : ~IsSpace(Char(s, j))}
    IN  IF stop = {} THEN Len(s) + 1 ELSE Least(stop)

IsP(c) == c \in {"p", "P"}

\* s[a..e-1] matches  \d+(?:\s*,\s*p\.\d+)*  where s[e] = ")"
RECURSIVE pages_tail(_, _, _)
pages_tail(s, a, e) ==
    LET b == digits_end(s, a)
    IN  /\ b > a
        /\ \/ b = e
           \/ LET c == spaces_end(s, b)
                  d == spaces_end(s, c + 1)
              IN  /\ Char(s, c) = ","
                  /\ IsP(Char(s, d))
                  /\ Char(s, d + 1) = "."
                  /\ pages_tail(s, d + 2, e)

\* End of the match of  \([^)]+\s+p\.\d+(?:\s*,\s*p\.\d+)*\)  (re.IGNORECASE)
\* that starts at position i, 0 when there is none.  A match runs to the
\* first ")" after i, so the lazy group of metrics.py matches the same span.
citation_end(s, i) ==
    IF Char(s, i) /= "(" THEN 0
    ELSE LET e == IndexFrom(s, ")", i + 1)
         IN  IF /\ e > 0
                /\ \E m \in (i + 2)..(e - 1) :
                      /\ IsSpace(Char(s, m))
                      /\ IsP(Char(s, m + 1))
                      /\ Char(s, m + 2) = "."
                      /\ pages_tail(s, m + 3, e)
             THEN e ELSE 0

\* Number of non-overlapping matches (re.findall, re.finditer).  Every match
\* ends at the first ")" after its start, so the matches found by a left to
\* right scan are as many as the distinct ends.
count_citations(s) ==
    Cardinality({citation_end(s, i) : i \in 1..Len(s)} \ {0})

\* re.search of the full citation pattern (judge.py)
has_citation(s) == \E i \in 1..Len(s) : citation_end(s, i) > 0

\* re.search(r'\([^)]+\s+p\.\d+', s) (metrics.py): no closing parenthesis needed
has_citation_prefix(s) ==
    \E i \in 1..Len(s) : \E m \in (i + 2)..(Len(s) - 3) :
        /\ Char(s, i) = "("
        /\ \A k \in (i + 1)..m : Char(s, k) /= ")"
        /\ IsSpace(Char(s, m))
        /\ IsP(Char(s, m + 1))
        /\ Char(s, m + 2) = "."
        /\ IsDigit(Char(s, m + 3))

(***************************************************************************)
(* Rationals standing for Python floats                                    *)
(***************************************************************************)
RECURSIVE GCD(_, _)
GCD(a, b) == IF b = 0 THEN a ELSE GCD(b, a % b)

Abs(x) == IF x < 0 THEN -x ELSE x

Rat(n, d) ==
    LET g == GCD(Abs(n), d) IN [n |-> n \div g, d |-> d \div g]

RAdd(x, y) == Rat(x.n * y.d + y.n * x.d, x.d * y.d)
RMul(x, y) == Rat(x.n * y.n, x.d * y.d)
RLe(x, y)  == x.n * y.d <= y.n * x.d
RLt(x, y)  == x.n * y.d < y.n * x.d
RMin(x, y) == IF RLt(y, x) THEN y ELSE x
RMax(x, y) == IF RLt(x, y) THEN y ELSE x
Zero == Rat(0, 1)
One  == Rat(1, 1)
Half == Rat(1, 2)
InUnit(x) == RLe(Zero, x) /\ RLe(x, One)

\* Python floats that are not finite: every ordered comparison with nan is
\* false, and the infinities lie beyond every rational
NaNf   == [n |-> 0, d |-> 0]
PosInf == [n |-> 1, d |-> 0]
NegInf == [n |-> 0 - 1, d |-> 0]

(***************************************************************************)
(* Python values: dictionaries, None, JSON values, raised exceptions       *)
(***************************************************************************)
\* dict.get(k, default)
Get(m, k, default) == IF k \in DOMAIN m THEN m[k] ELSE default

\* the empty dict {}
EmptyDict == [k \in {} |-> 0]

\* A JSON value after json.loads, tagged by its Python type.
Num(r)  == [num |-> r]
Str(s)  == [str |-> s]
Bool(b) == [bool |-> b]
Null    == [null |-> TRUE]
IsNum(v)  == DOMAIN v = {"num"}
IsStr(v)  == DOMAIN v = {"str"}
IsBool(v) == DOMAIN v = {"bool"}
IsNull(v) == DOMAIN v = {"null"}

\* The outcome of a call: the value it returns, or the exception it raises
\* (str(e) is msg).
Ok(v)      == [raised |-> FALSE, value |-> v]
Raise(msg) == [raised |-> TRUE, msg |-> msg]

DigitVal(c) == CHOOSE k \in 0..9 : ToString(k) = c

RECURSIVE NatOf(_)
NatOf(s) == IF s = "" THEN 0
            ELSE 10 * NatOf(SubSeq(s, 1, Len(s) - 1)) + DigitVal(Char(s, Len(s)))

RECURSIVE Pow10(_)
Pow10(k) == IF k = 0 THEN 1 ELSE 10 * Pow10(k - 1)

AllDigits(s) == s /= "" /\ \A i \in 1..Len(s) : IsDigit(Char(s, i))

\* float(text) for the decimal forms [-]d+[.d+], nan and inf; any other text
\* raises ValueError
float_of_str(text) ==
    LET t == lower(strip(text))
        neg == t /= "" /\ Char(t, 1) = "-"
        u == IF t /= "" /\ Char(t, 1) \in {"-", "+"} THEN SubSeq(t, 2, Len(t)) ELSE t
        dot == IndexFrom(u, ".", 1)
        ip == IF dot = 0 THEN u ELSE SubSeq(u, 1, dot - 1)
        fp == IF dot = 0 THEN "" ELSE SubSeq(u, dot + 1, Len(u))
        sign == IF neg THEN 0 - 1 ELSE 1
    IN  IF u = "nan" THEN Ok(NaNf)
        ELSE IF u \in {"inf", "infinity"} THEN Ok(IF neg THEN NegInf ELSE PosInf)
        ELSE IF AllDigits(ip) /\ (dot = 0 \/ AllDigits(fp))
        THEN Ok(Rat(sign * (NatOf(ip) * Pow10(Len(fp)) + NatOf(fp)), Pow10(Len(fp))))
        ELSE Raise("could not convert string to float: '" \o text \o "'")

\* a value float() refuses counts as 0.5
float_lenient(v) ==
    IF IsNum(v) THEN Ok(v.num)
    ELSE IF IsBool(v) THEN Ok(IF v.bool THEN One ELSE Zero)
    ELSE IF IsStr(v) /\ ~float_of_str(v.str).raised THEN float_of_str(v.str)
    ELSE Ok(Half)

\* float(v) of a JSON value
float(v) ==
    IF IsNum(v) THEN Ok(v.num)
    ELSE IF IsBool(v) THEN Ok(IF v.bool THEN One ELSE Zero)
    ELSE IF IsStr(v) THEN float_of_str(v.str)
    ELSE Raise("float() argument must be a string or a real number")

\* attempts=3 at every call of retry in the evaluation engine
RetryAttempts == 3

\* utils.retry(fn, attempts): calls[i] is the outcome of the i-th call of fn;
\* the first call that returns ends the loop, and when none of the first
\* `attempts` calls returns, the last exception is raised again.
retry(calls, attempts) ==
    LET returned == {i \in 1..attempts : ~calls[i].raised}
    IN  IF returned /= {} THEN calls[Least(returned)] ELSE calls[attempts]

\* the number of calls retry makes
retry_calls(calls, attempts) ==
    LET returned == {i \in 1..attempts : ~calls[i].raised}
    IN  IF returned /= {} THEN Least(returned) ELSE attempts

(***************************************************************************)
(* metrics.py                                                              *)
(***************************************************************************)
\* len(extract_citations(text)): one citation per non-overlapping match
extract_citations_count(text) == count_citations(text)

citation_coverage_of(n_cited, n_sentences) ==
    IF n_sentences > 0 THEN Rat(n_cited, n_sentences) ELSE Zero

compute_citation_metrics(answer) ==
    LET sentences == sentences_of(answer)
        cited == {k \in 1..Len(sentences) : has_citation_prefix(sentences[k])}
        n == extract_citations_count(answer)
    IN  [has_citations     |-> n > 0,
         citation_coverage |-> citation_coverage_of(Cardinality(cited), Len(sentences)),
         citation_count    |-> n]

compute_context_units(mode, retrieved, evidence_pack) ==
    IF mode = "text_rag" THEN Len(evidence_pack)
    ELSE IF mode \in {"optical", "hybrid"}
    THEN Cardinality({<<retrieved[k].doc_id, retrieved[k].page>> :
                        k \in {j \in 1..Len(retrieved) :
                                 retrieved[j].doc_id /= "" /\ retrieved[j].page /= 0}})
    ELSE 0

\* latency_seconds is a clock difference: the model keeps only that it is there
Elapsed == [seconds |-> "elapsed"]

compute_all_metrics(mode, answer, retrieved, evidence_pack) ==
    LET cm == compute_citation_metrics(answer)
    IN  [has_citations           |-> cm.has_citations,
         citation_coverage       |-> cm.citation_coverage,
         citation_count          |-> cm.citation_count,
         retrieved_pages_count   |-> Len(retrieved),
         estimated_context_units |-> compute_context_units(mode, retrieved, evidence_pack),
         latency_seconds         |-> Elapsed]

(***************************************************************************)
(* judge.py: the rule judge                                                *)
(***************************************************************************)
stop_words ==
    {"the", "a", "an", "and", "or", "but", "in", "on", "at", "to", "for", "of",
     "with", "by", "is", "are", "was", "were", "be", "been", "have", "has", "had",
     "do", "does", "did", "will", "would", "could", "should", "may", "might",
     "must", "can", "this", "that", "these", "those", "it", "its", "they", "them",
     "we", "you", "he", "she", "not", "no", "yes"}

\* re.sub(r'\([^)]+\)', '', text): position j goes when it lies between a
\* "(" and the first ")" after it, at least one character apart
remove_parens(s) ==
    LET gone(j) == \E i \in 1..j :
                      /\ Char(s, i) = "("
                      /\ LET e == IndexFrom(s, ")", i + 1) IN e >= i + 2 /\ j <= e
    IN  Join([j \in 1..Len(s) |-> IF gone(j) THEN "" ELSE Char(s, j)], 1, Len(s))

\* re.sub(r'[^\w\s]', ' ', text)
blank_punctuation(s) ==
    Join([j \in 1..Len(s) |->
            IF IsWordChar(Char(s, j)) \/ IsSpace(Char(s, j)) THEN Char(s, j) ELSE " "],
         1, Len(s))

extract_keywords(text) ==
    LET words == split(lower(blank_punctuation(remove_parens(text))))
    IN  {w \in Range(words) : Len(w) > 3 /\ w \notin stop_words}

compute_groundedness_proxy(answer, evidence) ==
    IF answer = "" \/ evidence = "" THEN Zero
    ELSE LET answer_keywords == extract_keywords(answer)
             evidence_keywords == extract_keywords(evidence)
         IN  IF answer_keywords = {} THEN Zero
             ELSE RMin(One, Rat(Cardinality(answer_keywords \cap evidence_keywords),
                                Cardinality(answer_keywords)))

check_citations(answer) ==
    LET sentences == sentences_of(answer)
        cited == {k \in 1..Len(sentences) : has_citation(sentences[k])}
        n == count_citations(answer)
    IN  [has_citations        |-> n > 0,
         citation_coverage    |-> citation_coverage_of(Cardinality(cited), Len(sentences)),
         citation_correctness |-> IF n > 0 THEN One ELSE Zero,
         citation_count       |-> n]

\* an answer that found something is worth the number of pages retrieved
retrieved_pages_score(answer, retrieved_count) ==
    LET answer_lower == lower(answer)
        is_not_found == Contains(answer_lower, "not found") \/ Contains(answer_lower, "not in")
    IN  IF retrieved_count = 0
        THEN (IF is_not_found THEN One ELSE Zero)
        ELSE (IF is_not_found THEN Zero ELSE Rat(retrieved_count, 1))

check_not_found_correctness(answer, retrieved_count) ==
    LET answer_lower == lower(answer)
        is_not_found == Contains(answer_lower, "not found") \/ Contains(answer_lower, "not in")
    IN  IF retrieved_count = 0
        THEN (IF is_not_found THEN One ELSE Zero)
        ELSE (IF is_not_found THEN Zero ELSE One)

compute_length_penalty(answer) ==
    LET word_count == Len(split(answer))
    IN  IF 20 <= word_count /\ word_count <= 200 THEN One
        ELSE IF word_count < 10 THEN Rat(5, 10)
        ELSE IF word_count > 500 THEN Rat(7, 10)
        ELSE Rat(9, 10)

\* no clamp at all
unclamped(v) == v

\* max(0.0, min(1.0, v))
clamp01(v) == RMax(Zero, RMin(One, v))

\* the three components weigh the same
judge_answer_rule_unweighted(answer, evidence_pack, retrieved_count) ==
    LET groundedness_proxy == compute_groundedness_proxy(answer, evidence_pack)
        citation_metrics == check_citations(answer)
        not_found_score == check_not_found_correctness(answer, retrieved_count)
        length_penalty == compute_length_penalty(answer)
        citation_quality ==
            RMul(Half, RAdd(citation_metrics.citation_correctness,
                            citation_metrics.citation_coverage))
        completeness_proxy == RMul(Half, RAdd(not_found_score, length_penalty))
        score ==
            RMul(Rat(1, 3), RAdd(RAdd(groundedness_proxy, citation_quality),
                                 completeness_proxy))
    IN  [score                |-> clamp01(score),
         rationale            |-> [rule |-> <<groundedness_proxy, citation_quality,
                                              completeness_proxy>>],
         citation_correctness |-> citation_metrics.citation_correctness,
         coverage             |-> completeness_proxy,
         is_grounded          |-> Bool(RLt(Half, groundedness_proxy))]

\* The rationale is a text of the three components; the model keeps their
\* values, tagged as the rule judge's, instead of their two-decimal rendering.
judge_answer_rule(answer, evidence_pack, retrieved_count) ==
    LET groundedness_proxy == compute_groundedness_proxy(answer, evidence_pack)
        citation_metrics == check_citations(answer)
        not_found_score == check_not_found_correctness(answer, retrieved_count)
        length_penalty == compute_length_penalty(answer)
        citation_quality ==
            RAdd(RMul(Rat(6, 10), citation_metrics.citation_correctness),
                 RMul(Rat(4, 10), citation_metrics.citation_coverage))
        completeness_proxy ==
            RAdd(RMul(Rat(7, 10), not_found_score), RMul(Rat(3, 10), length_penalty))
        score ==
            RAdd(RAdd(RMul(Rat(45, 100), groundedness_proxy),
                      RMul(Rat(35, 100), citation_quality)),
                 RMul(Rat(20, 100), completeness_proxy))
    IN  [score                |-> clamp01(score),
         rationale            |-> [rule |-> <<groundedness_proxy, citation_quality,
                                              completeness_proxy>>],
         citation_correctness |-> citation_metrics.citation_correctness,
         coverage             |-> completeness_proxy,
         is_grounded          |-> Bool(RLt(Half, groundedness_proxy))]

(***************************************************************************)
(* judge.py: the LLM judge                                                 *)
(*                                                                         *)
(* A response text of the generation service is kept as what               *)
(* safe_json_loads makes of it: Parsed(v) for a text that json.loads turns *)
(* into the JSON value v (an object is [obj |-> fields]), Garbage for a    *)
(* text it rejects or an empty text.                                       *)
(***************************************************************************)
Parsed(v) == [json |-> v]
Garbage == [garbage |-> TRUE]
Obj(fields) == [obj |-> fields]
IsObj(v) == DOMAIN v = {"obj"}

\* a text that does not parse reads as the empty object
json_loads_or_empty(text) == IF text = Garbage THEN Obj(EmptyDict) ELSE text.json

safe_json_loads(text) == IF text = Garbage THEN Null ELSE text.json

\* the verdict _call returns in place of a response the safety filter blocked
SafetyVerdict ==
    Obj([score                |-> Num(Half),
         rationale            |-> Str("Judge response blocked by safety filter"),
         citation_correctness |-> Num(Half),
         coverage             |-> Num(Half),
         is_grounded          |-> Bool(FALSE)])

\* only the finish reason is looked for in the message
is_finish_reason_error(msg) == Contains(msg, "finish_reason")

is_safety_error(msg) == Contains(msg, "finish_reason") \/ Contains(lower(msg), "safety")

\* calls[i] is the outcome of the i-th generate_content call of the judge
judge_answer_llm(env, calls, answer, evidence_pack) ==
    IF ~env.GCP_PROJECT_ID THEN judge_answer_rule(answer, evidence_pack, 0)
    ELSE
    LET _call(i) == IF calls[i].raised /\ is_safety_error(calls[i].msg)
                    THEN Ok(Parsed(SafetyVerdict))
                    ELSE calls[i]
        response_text == retry([i \in 1..RetryAttempts |-> _call(i)], RetryAttempts)
        result == safe_json_loads(response_text.value)
        score == float(Get(result.obj, "score", Num(Half)))
        citation_correctness == float(Get(result.obj, "citation_correctness", Num(Half)))
        coverage == float(Get(result.obj, "coverage", Num(Half)))
        is_grounded == Get(result.obj, "is_grounded", Bool(FALSE))
    IN  IF response_text.raised THEN judge_answer_rule(answer, evidence_pack, 0)
        ELSE IF result = Null THEN judge_answer_rule(answer, evidence_pack, 0)
        ELSE IF ~IsObj(result) THEN judge_answer_rule(answer, evidence_pack, 0)
        ELSE IF score.raised \/ citation_correctness.raised \/ coverage.raised
        THEN judge_answer_rule(answer, evidence_pack, 0)
        ELSE [score                |-> clamp01(score.value),
              rationale            |-> Get(result.obj, "rationale", Str("No rationale provided")),
              citation_correctness |-> clamp01(citation_correctness.value),
              coverage             |-> clamp01(coverage.value),
              is_grounded          |-> IF IsStr(is_grounded)
                                       THEN Bool(lower(is_grounded.str) \in {"true", "yes", "1"})
                                       ELSE is_grounded]

judge_answer(env, calls, answer, evidence_pack, judge_mode, retrieved_count) ==
    IF judge_mode = "llm" THEN judge_answer_llm(env, calls, answer, evidence_pack)
    ELSE judge_answer_rule(answer, evidence_pack, retrieved_count)

(***************************************************************************)
(* observability.py: redact_secrets                                        *)
(***************************************************************************)
\* [a-zA-Z0-9_-]
IsKeyChar(c) == c \in LowerChars \/ c \in UpperChars \/ c \in DigitChars \/ c \in {"_", "-"}

\* [0-9a-f]
IsHexChar(c) == c \in DigitChars \/ c \in {"a", "b", "c", "d", "e", "f"}

StartsAt(s, i, prefix) ==
    i + Len(prefix) - 1 <= Len(s) /\ SubSeq(s, i, i + Len(prefix) - 1) = prefix

\* the end of the longest run of key characters that starts at a (a - 1 if none)
key_run_end(s, a) ==
    LET stops == {j \in a..Len(s) : ~IsKeyChar(Char(s, j))}
    IN  IF stops = {} THEN Len(s) ELSE Least(stops) - 1

\* The matches re.sub replaces, scanning left to right: a match starts at a
\* candidate position that no earlier match covers.  ends[i] is the last
\* position of the match a candidate i would make (0: no match at i).
RECURSIVE is_match_start(_, _)
is_match_start(ends, i) ==
    /\ ends[i] > 0
    /\ \A i0 \in 1..(i - 1) : ~(ends[i0] >= i /\ is_match_start(ends, i0))

\* re.sub of the matches given by ends with the text replacement
substitute(s, ends, replacement) ==
    LET starts == {i \in 1..Len(s) : is_match_start(ends, i)}
        piece(j) == IF j \in starts THEN replacement
                    ELSE IF \E i \in starts : i < j /\ j <= ends[i] THEN ""
                    ELSE Char(s, j)
    IN  IF starts = {} THEN s ELSE Join([j \in 1..Len(s) |-> piece(j)], 1, Len(s))

\* r'sk-[a-zA-Z0-9_-]+' and r'pk-[a-zA-Z0-9_-]+'
key_ends(s, prefix) ==
    [i \in 1..Len(s) |->
       IF StartsAt(s, i, prefix) /\ key_run_end(s, i + 3) >= i + 3
       THEN key_run_end(s, i + 3) ELSE 0]

GoogleKeyChars == 35

\* r'AIza[0-9A-Za-z_-]{35}'
google_ends(s) ==
    [i \in 1..Len(s) |->
       IF StartsAt(s, i, "AIza") /\ key_run_end(s, i + 4) >= i + 3 + GoogleKeyChars
       THEN i + 3 + GoogleKeyChars ELSE 0]

UuidShape == "xxxxxxxx-xxxx-xxxx-xxxx-xxxxxxxxxxxx"

\* r'[0-9a-f]{8}-[0-9a-f]{4}-[0-9a-f]{4}-[0-9a-f]{4}-[0-9a-f]{12}'
uuid_ends(s) ==
    [i \in 1..Len(s) |->
       IF /\ i + Len(UuidShape) - 1 <= Len(s)
          /\ \A k \in 1..Len(UuidShape) :
                IF Char(UuidShape, k) = "-" THEN Char(s, i + k - 1) = "-"
                ELSE IsHexChar(Char(s, i + k - 1))
       THEN i + Len(UuidShape) - 1 ELSE 0]

redact_secrets(text) ==
    LET r1 == substitute(text, key_ends(text, "sk-"), "sk-***")
        r2 == substitute(r1, key_ends(r1, "pk-"), "pk-***")
        r3 == substitute(r2, google_ends(r2), "AIza***")
    IN  substitute(r3, uuid_ends(r3), "***")

(***************************************************************************)
(* observability.py: LocalTracer                                           *)
(*                                                                         *)
(* A tracer is [enabled, closed]: closed says that trace_fp has been       *)
(* closed.  The trace file is the sequence of its lines, each line the     *)
(* event that json.dumps wrote; the artifact files are a function from     *)
(* their path below artifacts_dir to their content.                        *)
(***************************************************************************)
IntVal(n) == [int |-> n]
IsInt(v) == DOMAIN v = {"int"}

\* the text json.dumps makes of a value: the text json.loads reads back as it
json_dumps(v) == Parsed(v)

\* bool(v) of a question id, a string or an integer of the questions file
truthy(v) == v \notin {Str(""), IntVal(0), Null}

\* the clock and the generated run id are not modelled
Now == "ts"
RunId == "run_1"

\* the payload with redact_secrets applied to its strings
redacted_payload(payload) ==
    [k \in DOMAIN payload |->
       IF IsStr(payload[k]) THEN Str(redact_secrets(payload[k].str))
       ELSE IF IsObj(payload[k])
       THEN Obj([k2 \in DOMAIN payload[k].obj |->
                   IF IsStr(payload[k].obj[k2])
                   THEN Str(redact_secrets(payload[k].obj[k2].str))
                   ELSE payload[k].obj[k2]])
       ELSE payload[k]]

\* the event log_event builds; mode is a string, question_id a tagged id,
\* doc_ids a set (list(set(...)) has no defined order), pages a sequence,
\* latency_ms Null or a clock difference
event_of(corpus_id, stage, mode, question_id, doc_ids, pages, latency_ms, payload) ==
    [ts |-> Now, run_id |-> RunId, corpus_id |-> corpus_id, stage |-> stage]
      @@ (IF mode /= "" THEN "mode" :> mode ELSE EmptyDict)
      @@ (IF truthy(question_id) THEN "question_id" :> question_id ELSE EmptyDict)
      @@ (IF doc_ids /= {} THEN "doc_ids" :> doc_ids ELSE EmptyDict)
      @@ (IF pages /= << >> THEN "pages" :> pages ELSE EmptyDict)
      @@ (IF latency_ms /= Null THEN "latency_ms" :> latency_ms ELSE EmptyDict)
      @@ (IF DOMAIN payload /= {} THEN "payload" :> redacted_payload(payload) ELSE EmptyDict)

\* the trace file opened for writing at every event
log_event_rewrite(t, log, corpus_id, stage, mode, question_id, doc_ids, pages, latency_ms, payload) ==
    IF ~t.enabled THEN log
    ELSE IF t.closed THEN log
    ELSE <<event_of(corpus_id, stage, mode, question_id, doc_ids, pages, latency_ms,
                    payload)>>

\* The trace file after log_event.  Writing to a closed file raises
\* ValueError, which log_event catches and logs as a warning.
log_event(t, log, corpus_id, stage, mode, question_id, doc_ids, pages, latency_ms, payload) ==
    IF ~t.enabled THEN log
    ELSE IF t.closed THEN log
    ELSE Append(log, event_of(corpus_id, stage, mode, question_id, doc_ids, pages,
                              latency_ms, payload))

ext_map(artifact_type) ==
    IF artifact_type \in {"retrieval", "judge"} THEN ".json"
    ELSE IF artifact_type = "answer" THEN ".md"
    ELSE ".txt"

\* artifacts_dir / mode / question_id / f"{artifact_type}{ext}"; joining an
\* empty name leaves the directory as it is
artifact_path(mode, question_id, artifact_type) ==
    mode \o "/" \o (IF question_id.str = "" THEN "" ELSE question_id.str \o "/")
         \o artifact_type \o ext_map(artifact_type)

\* The artifact files after save_artifact, or the exception it raises: the
\* path is built outside the try block, and pathlib refuses a question id
\* that is not a string.  Nothing in save_artifact looks at trace_fp.
save_artifact(t, files, mode, question_id, artifact_type, content, metadata) ==
    IF ~t.enabled THEN Ok(files)
    ELSE IF ~IsStr(question_id)
    THEN Raise("unsupported operand type(s) for /: 'PosixPath' and 'int'")
    ELSE LET data == IF artifact_type \in {"retrieval", "judge"}
                     THEN json_dumps(Obj([content |-> Str(content)]
                            @@ (IF DOMAIN metadata /= {} THEN "metadata" :> Obj(metadata)
                                ELSE EmptyDict)))
                     ELSE redact_secrets(content)
         IN  Ok((artifact_path(mode, question_id, artifact_type) :> data) @@ files)

\* close(): closes trace_fp; enabled stays as it is
close(t) == IF t.enabled THEN [t EXCEPT !.closed = TRUE] ELSE t

(***************************************************************************)
(* app/pipeline/qa.py and eval/modes/text_rag.py: retrieval                *)
(***************************************************************************)
\* sep.join(parts)
JoinSep(parts, sep) ==
    LET n == Len(parts)
    IN  IF n = 0 THEN ""
        ELSE Join([i \in 1..(2 * n - 1) |->
                     IF i % 2 = 1 THEN parts[(i + 1) \div 2] ELSE sep], 1, 2 * n - 1)

\* s[:n]
Prefix(s, n) == SubSeq(s, 1, IF n < Len(s) THEN n ELSE Len(s))

\* the metadata dict of a retrieval result
metadata_of(result) == Get(result, "metadata", EmptyDict)

\* (memory_id, page_number, content) of a retrieval result, or None: when no
\* page number is known (neither in the metadata nor in the manifest) or the
\* content is blank.  Every modelled result carries a non-empty content string.
_extract_result_info(result, manifest) ==
    LET id0 == Get(result, "id", "")
        memory_id == IF id0 /= "" THEN id0 ELSE Get(result, "memory_id", "")
        metadata == metadata_of(result)
        entries == IF manifest = Null THEN << >> ELSE Get(manifest, "pages", << >>)
        hits == {i \in 1..Len(entries) : entries[i].memory_id = memory_id}
        page_number == IF "page" \in DOMAIN metadata THEN <<metadata.page>>
                       ELSE IF hits /= {} THEN <<entries[Least(hits)].page>>
                       ELSE << >>
        content == result.content
    IN  IF page_number = << >> THEN Null
        ELSE IF strip(content) = "" THEN Null
        ELSE [memory_id |-> memory_id, page_number |-> page_number[1], content |-> content]

TruncationMark == "... [truncated]"
SectionSeparator == "\n\n---\n\n"

_build_evidence_pack(results, manifest, doc_id, max_chars_per_page) ==
    LET info(k) == _extract_result_info(results[k], manifest)
        kept == SelectSeq([k \in 1..Len(results) |-> k], LAMBDA k : info(k) /= Null)
        section(k) ==
            LET content == IF Len(info(k).content) > max_chars_per_page
                           THEN Prefix(info(k).content, max_chars_per_page) \o TruncationMark
                           ELSE info(k).content
            IN  "[Page " \o ToString(info(k).page_number) \o " | memory_id="
                  \o info(k).memory_id \o "]\n" \o content
    IN  JoinSep([j \in 1..Len(kept) |-> section(kept[j])], SectionSeparator)

\* the filter of the shared QA query: when nothing matches, the response as
\* it came
corpus_filter_lenient(results, corpus_id, doc_id, top_k) ==
    LET match(k) ==
            LET metadata == metadata_of(results[k])
            IN  /\ "corpus_id" \in DOMAIN metadata
                /\ metadata.corpus_id = corpus_id
                /\ \/ doc_id = Null
                   \/ /\ IsStr(doc_id)
                      /\ "doc_id" \in DOMAIN metadata
                      /\ metadata.doc_id = doc_id.str
        filtered_results == SelectSeq([k \in 1..Len(results) |-> k], match)
    IN  IF filtered_results = << >>
        THEN SubSeq(results, 1, IF top_k < Len(results) THEN top_k ELSE Len(results))
        ELSE [j \in 1..(IF top_k < Len(filtered_results) THEN top_k
                        ELSE Len(filtered_results)) |-> results[filtered_results[j]]]

\* What _call keeps of one response of the retrieval service: the results of
\* this corpus (and of the hinted document), at most top_k of them, in the
\* service's order.
corpus_filter(results, corpus_id, doc_id, top_k) ==
    LET match(k) ==
            LET metadata == metadata_of(results[k])
            IN  /\ "corpus_id" \in DOMAIN metadata
                /\ metadata.corpus_id = corpus_id
                /\ \/ doc_id = Null
                   \/ /\ IsStr(doc_id)
                      /\ "doc_id" \in DOMAIN metadata
                      /\ metadata.doc_id = doc_id.str
        filtered_results == SelectSeq([k \in 1..Len(results) |-> k], match)
    IN  [j \in 1..(IF top_k < Len(filtered_results) THEN top_k ELSE Len(filtered_results))
           |-> results[filtered_results[j]]]

\* service[i] is the outcome of the i-th search call of the SDK client
query_with_corpus_filter(service, corpus_id, doc_id, top_k) ==
    retry([i \in 1..RetryAttempts |->
             IF service[i].raised THEN service[i]
             ELSE Ok(corpus_filter(service[i].value, corpus_id, doc_id, top_k))],
          RetryAttempts)

(***************************************************************************)
(* eval/modes: the three mode runners                                      *)
(*                                                                         *)
(* env holds the two credentials of app/config.py.  world holds what the   *)
(* outside answers during one call of a runner: service[i] the i-th search *)
(* call, gen_text[i] the i-th text generation call, gen_images[i] the i-th *)
(* generation call with images, and images the page images that load.     *)
(***************************************************************************)
\* the sentinel with another wording
NotFoundInPages == "Not found in provided pages."

NotFound == "Not found in provided documents."

\* the sentinel answer with a note as evidence
NotFoundWithEvidence ==
    [answer_md |-> NotFound, retrieved |-> << >>, evidence_pack |-> "No pages matched."]

NotFoundResult == [answer_md |-> NotFound, retrieved |-> << >>, evidence_pack |-> ""]

ExcerptChars == 250

\* doc_id or ''
or_empty(doc_id) == IF IsStr(doc_id) THEN doc_id.str ELSE ""

run_text_rag(env, world, corpus_id, top_k, max_chars_per_page, doc_id, manifest) ==
    IF ~env.GCP_PROJECT_ID
    THEN Raise("GCP_PROJECT_ID not found in environment variables")
    ELSE IF ~env.SUPERMEMORY_API_KEY
    THEN Raise("SUPERMEMORY_API_KEY not found in environment variables")
    ELSE
    LET query == query_with_corpus_filter(world.service, corpus_id, doc_id, top_k)
        results == query.value
        evidence_pack ==
            _build_evidence_pack(results, manifest, or_empty(doc_id), max_chars_per_page)
        answer == retry(world.gen_text, RetryAttempts)
        info(k) == _extract_result_info(results[k], manifest)
        kept == SelectSeq([k \in 1..Len(results) |-> k], LAMBDA k : info(k) /= Null)
        item(k) ==
            [doc_id    |-> Get(metadata_of(results[k]), "doc_id", or_empty(doc_id)),
             page      |-> info(k).page_number,
             memory_id |-> info(k).memory_id,
             excerpt   |-> Prefix(info(k).content, ExcerptChars)]
    IN  IF query.raised THEN query
        ELSE IF results = << >> THEN Ok(NotFoundResult)
        ELSE IF evidence_pack = "" THEN Ok(NotFoundResult)
        ELSE IF answer.raised THEN answer
        ELSE Ok([answer_md     |-> answer.value,
                 retrieved     |-> [j \in 1..Len(kept) |-> item(kept[j])],
                 evidence_pack |-> evidence_pack])

\* f"{page_number:03d}"
pad3(n) ==
    LET t == ToString(n)
    IN  IF Len(t) >= 3 THEN t ELSE SubSeq("000", 1, 3 - Len(t)) \o t

\* corpus_dir / "docs" / doc_id / "images" / f"page_{page_number:03d}.png"
image_path(doc_id, page_number) ==
    "docs/" \o doc_id \o "/images/page_" \o pad3(page_number) \o ".png"

\* the evidence text the proxy path returns
summaries_pack(page_summaries) ==
    JoinSep([j \in 1..Len(page_summaries) |->
               "[Page " \o ToString(page_summaries[j].page) \o " from "
                 \o page_summaries[j].doc_id \o "]\nSummary: " \o page_summaries[j].summary],
            SectionSeparator)

run_optical(env, world, corpus_id, top_k, max_images, doc_id, manifest, use_proxy) ==
    IF ~env.GCP_PROJECT_ID
    THEN Raise("GCP_PROJECT_ID not found in environment variables")
    ELSE IF ~env.SUPERMEMORY_API_KEY
    THEN Raise("SUPERMEMORY_API_KEY not found in environment variables")
    ELSE
    LET query == query_with_corpus_filter(world.service, corpus_id, doc_id, top_k)
        results == query.value
        info(k) == _extract_result_info(results[k], manifest)
        kept == SelectSeq([k \in 1..Len(results) |-> k], LAMBDA k : info(k) /= Null)
        metadata(k) == metadata_of(results[k])
        doc_id_from_result(k) == Get(metadata(k), "doc_id", or_empty(doc_id))
        summary(k) == Get(metadata(k), "summary", "")
        item(k) ==
            [doc_id    |-> doc_id_from_result(k),
             page      |-> info(k).page_number,
             memory_id |-> info(k).memory_id,
             excerpt   |-> IF summary(k) /= "" THEN Prefix(summary(k), ExcerptChars)
                           ELSE Prefix(info(k).content, ExcerptChars)]
        page_summary(k) ==
            [doc_id   |-> doc_id_from_result(k),
             page     |-> info(k).page_number,
             summary  |-> summary(k),
             entities |-> Get(metadata(k), "entities", << >>)]
        path(k) == image_path(doc_id_from_result(k), info(k).page_number)
        loaded == SelectSeq(kept, LAMBDA k : path(k) \in world.images)
        retrieved0 == [j \in 1..Len(kept) |-> item(kept[j])]
        page_images0 == IF use_proxy THEN << >> ELSE [j \in 1..Len(loaded) |-> path(loaded[j])]
        page_summaries0 == IF use_proxy THEN [j \in 1..Len(kept) |-> page_summary(kept[j])]
                           ELSE [j \in 1..Len(loaded) |-> page_summary(loaded[j])]
        over == Len(page_images0) > max_images
        page_images == IF over THEN Prefix(page_images0, max_images) ELSE page_images0
        page_summaries == IF over THEN Prefix(page_summaries0, max_images) ELSE page_summaries0
        retrieved == IF over THEN Prefix(retrieved0, max_images) ELSE retrieved0
        proxy == retry(world.gen_text, RetryAttempts)
        optical == retry(world.gen_images, RetryAttempts)
    IN  IF query.raised THEN query
        ELSE IF results = << >> THEN Ok(NotFoundResult)
        ELSE IF page_images = << >> /\ page_summaries = << >> THEN Ok(NotFoundResult)
        ELSE IF use_proxy \/ page_images = << >> \/ optical.raised
        THEN (IF proxy.raised THEN proxy
              ELSE Ok([answer_md     |-> proxy.value,
                       retrieved     |-> retrieved,
                       evidence_pack |-> summaries_pack(page_summaries)]))
        ELSE Ok([answer_md |-> optical.value, retrieved |-> retrieved, evidence_pack |-> ""])

\* hybrid as a runner of its own that always sends the page images
run_hybrid_images(env, world, corpus_id, top_k, max_images, doc_id, manifest, use_proxy) ==
    run_optical(env, world, corpus_id, top_k, max_images, doc_id, manifest, FALSE)

run_hybrid(env, world, corpus_id, top_k, max_images, doc_id, manifest, use_proxy) ==
    run_optical(env, world, corpus_id, top_k, max_images, doc_id, manifest, use_proxy)

\* The functions run_text_rag calls that reach the outside, in call order.
\* The credential checks come first and call nothing.
text_rag_calls(env, world, corpus_id, top_k, max_chars_per_page, doc_id, manifest) ==
    IF ~env.GCP_PROJECT_ID \/ ~env.SUPERMEMORY_API_KEY THEN << >>
    ELSE
    LET query == query_with_corpus_filter(world.service, corpus_id, doc_id, top_k)
        evidence_pack ==
            _build_evidence_pack(query.value, manifest, or_empty(doc_id), max_chars_per_page)
    IN  <<"query_with_corpus_filter">>
          \o (IF query.raised THEN << >>
              ELSE IF query.value = << >> THEN << >>
              ELSE IF evidence_pack = "" THEN << >>
              ELSE <<"generate_answer_with_gemini">>)

\* The functions run_optical calls that reach the outside, in call order:
\* the search, load_page_image once for every result with page info unless
\* use_proxy, then the generation over the images and, when that is not
\* taken or raises, the generation over the summaries.
optical_calls(env, world, corpus_id, top_k, max_images, doc_id, manifest, use_proxy) ==
    IF ~env.GCP_PROJECT_ID \/ ~env.SUPERMEMORY_API_KEY THEN << >>
    ELSE
    LET query == query_with_corpus_filter(world.service, corpus_id, doc_id, top_k)
        results == query.value
        info(k) == _extract_result_info(results[k], manifest)
        kept == SelectSeq([k \in 1..Len(results) |-> k], LAMBDA k : info(k) /= Null)
        path(k) == image_path(Get(metadata_of(results[k]), "doc_id", or_empty(doc_id)),
                              info(k).page_number)
        loaded == SelectSeq(kept, LAMBDA k : path(k) \in world.images)
        loads == IF use_proxy THEN << >> ELSE [j \in 1..Len(kept) |-> "load_page_image"]
        page_images == IF use_proxy \/ max_images = 0 THEN << >> ELSE loaded
        page_summaries == IF use_proxy THEN kept
                          ELSE IF Len(loaded) > max_images THEN Prefix(loaded, max_images)
                          ELSE loaded
        optical == retry(world.gen_images, RetryAttempts)
    IN  <<"query_with_corpus_filter">>
          \o (IF query.raised THEN << >>
              ELSE IF results = << >> THEN << >>
              ELSE loads
                     \o (IF page_images = << >> /\ page_summaries = << >> THEN << >>
                         ELSE IF use_proxy \/ page_images = << >>
                         THEN <<"generate_answer_proxy_optical">>
                         ELSE IF optical.raised
                         THEN <<"generate_answer_with_images", "generate_answer_proxy_optical">>
                         ELSE <<"generate_answer_with_images">>))

(***************************************************************************)
(* The inputs of a run: the questions file, and what the retrieval         *)
(* service, the page images on disk and the generation service answer      *)
(***************************************************************************)
MaxQuestions == 2
MaxDeviations == 1
TopK == 3
MaxImages == 2
MaxCharsPerPage == 12

Corpus == "c1"

\* The k-th question of the file.  The second one carries a number as its id
\* and names a document; the ones after the third carry no id.
Question(k) ==
    [id       |-> IF k = 2 THEN IntVal(2) ELSE IF k > 3 THEN Str("") ELSE Str("q" \o ToString(k)),
     question |-> IF k = 2 THEN "What fell in D1?" ELSE "What grew?",
     doc_hint |-> IF k = 2 THEN Str("D1") ELSE Null,
     expected_answer |-> Null]

QuestionFiles == {[k \in 1..n |-> Question(k)] : n \in 0..MaxQuestions}

\* corpus_manifest.json: the page of memory m3 is known only here
Manifest == [pages |-> <<[memory_id |-> "m3", page |-> 3]>>]

Memory(id, corpus_id, doc_id, page, summary, content) ==
    [id |-> id, content |-> content,
     metadata |-> [corpus_id |-> corpus_id, doc_id |-> doc_id, page |-> page,
                   summary |-> summary]]

R1 == Memory("m1", Corpus, "D1", 1, "Revenue grew.", "Revenue grew in 2023.")
R2 == Memory("m2", Corpus, "D1", 2, "", "Costs fell.")
\* no page in the metadata; the manifest knows it
R3 == [id |-> "m3", content |-> "Staff count.",
       metadata |-> [corpus_id |-> Corpus, doc_id |-> "D2", summary |-> "Staff."]]
\* no page anywhere
R4 == [id |-> "m4", content |-> "Lost page.", metadata |-> [corpus_id |-> Corpus, doc_id |-> "D1"]]
\* blank content
R5 == Memory("m5", Corpus, "D1", 5, "Blank.", "  ")
\* a memory of another corpus
R6 == Memory("x1", "c2", "D9", 1, "Other.", "Other corpus.")
\* a second memory of page 1 of D1
R7 == Memory("m7", Corpus, "D1", 1, "Revenue again.", "Revenue grew 10%.")

ServiceResults ==
    {<<R1, R2>>, << >>, <<R6>>, <<R4, R5>>, <<R6, R1, R3, R2, R1>>, <<R2, R4>>}

Unavailable == Raise("503 service unavailable")

\* the same outcome at every call
Always(o) == [i \in 1..RetryAttempts |-> o]

\* n failed calls, then o
Flaky(n, o) == [i \in 1..RetryAttempts |-> IF i <= n THEN Unavailable ELSE o]

ServiceCalls ==
    {Always(Ok(r)) : r \in ServiceResults}
      \cup {Always(Unavailable), Flaky(2, Ok(<<R1, R2>>)), Flaky(1, Ok(<< >>))}

Answers == {"Revenue grew in 2023 (D1 p.1).", "Revenue grew", NotFound, ""}

GenerationCalls ==
    {Always(Ok(a)) : a \in Answers}
      \cup {Always(Unavailable), Always(Raise("Response blocked by safety filters")),
            Flaky(1, Ok("Costs fell (D1 p.2). Staff too."))}

AllImages == {image_path("D1", 1), image_path("D1", 2), image_path("D2", 3)}
ImagesOnDisk == {AllImages, {}, {image_path("D1", 2)}}

\* every answer of the outside to one call of a mode runner
Worlds ==
    [service : ServiceCalls, gen_text : GenerationCalls, gen_images : GenerationCalls,
     images : ImagesOnDisk]

\* the services up, two pages found, their images on disk, a cited answer
Nominal ==
    [service    |-> Always(Ok(<<R1, R2>>)),
     gen_text   |-> Always(Ok("Revenue grew in 2023 (D1 p.1).")),
     gen_images |-> Always(Ok("Revenue grew in 2023 (D1 p.1).")),
     images     |-> AllImages]

\* the worlds that differ from the nominal one in one respect
Deviations ==
    {w \in Worlds : Cardinality({f \in DOMAIN w : w[f] /= Nominal[f]}) = 1}

\* What the generation service answers to the judge's prompt.
JudgeVerdicts ==
    {Obj([score |-> Num(Rat(8, 10)), rationale |-> Str("Grounded."),
          citation_correctness |-> Num(One), coverage |-> Num(Rat(7, 10)),
          is_grounded |-> Bool(TRUE)]),
     Obj([score |-> Num(Rat(3, 2)), rationale |-> Str("Great."),
          citation_correctness |-> Num(Rat(0 - 1, 5)), coverage |-> Num(Rat(2, 1)),
          is_grounded |-> Str("Yes")]),
     Obj(EmptyDict),
     Obj([score |-> Str("0.9"), is_grounded |-> Null]),
     Obj([score |-> Num(NaNf), coverage |-> Num(NegInf)]),
     Obj([score |-> Str("high")]),
     Obj([score |-> Null]),
     [list |-> << >>],
     Null}

NominalVerdict ==
    Obj([score |-> Num(Rat(8, 10)), rationale |-> Str("Grounded."),
         citation_correctness |-> Num(One), coverage |-> Num(Rat(7, 10)),
         is_grounded |-> Bool(TRUE)])

JudgeCalls ==
    {Always(Ok(Parsed(v))) : v \in JudgeVerdicts}
      \cup {Always(Ok(Garbage)), Always(Unavailable),
            Always(Raise("Response blocked by safety filters")),
            Flaky(2, Ok(Parsed(NominalVerdict)))}

NominalJudge == Always(Ok(Parsed(NominalVerdict)))

(***************************************************************************)
(* run_eval.py: the state of a run                                         *)
(***************************************************************************)
VARIABLES
    args,          \* the parsed command line
    env,           \* the credentials app/config.py read from the environment
    questions,     \* the loaded questions file
    pc,            \* where main (and run_mode inside it) stands
    rc,            \* main's return value, Null while it runs
    qi, mi,        \* the question and the mode of the current iteration
    world,         \* what the outside answers during the current iteration
    result,        \* run_mode: the outcome of the mode runner
    metrics,       \* run_mode: the metrics bundle
    judge_result,  \* run_mode: the verdict
    exc,           \* run_mode: str(e) of the exception being handled
    all_results,   \* main: the result list
    tracer,        \* the current tracer, Null when there is none
    trace_log,     \* the lines of the tracer's JSONL file
    artifacts,     \* the artifact files
    reports,       \* the files of the results directory
    invoked,       \* observer: the runner and judge calls, each with the
                   \* number of trace lines written before it
    deviations,    \* the iterations so far whose world was not the nominal one
    api_calls      \* the calls made on the tracer by a caller other than main

vars == <<args, env, questions, pc, rc, qi, mi, world, result, metrics, judge_result,
          exc, all_results, tracer, trace_log, artifacts, reports, invoked,
          deviations, api_calls>>

Modes == <<"text_rag", "optical", "hybrid">>

\* main, lines 411-416
modes_to_run == IF args.mode = "all" THEN Modes ELSE <<args.mode>>

question == questions[qi]
mode == modes_to_run[mi]
q_text == Get(question, "question", "")
q_id == Get(question, "id", Str(""))
doc_hint == Get(question, "doc_hint", Null)

ArgsSpace ==
    [mode : {"text_rag", "optical", "hybrid", "all"}, judge : {"rule", "llm"},
     use_proxy_optical : BOOLEAN, trace : BOOLEAN, corpus_id : {Corpus},
     top_k : {TopK}, max_chars_per_page : {MaxCharsPerPage}, max_images : {MaxImages}]

EnvSpace == [GCP_PROJECT_ID : BOOLEAN, SUPERMEMORY_API_KEY : BOOLEAN]

\* nothing run yet, no tracer, no file written
Idle ==
    /\ rc = Null
    /\ qi = 1 /\ mi = 1
    /\ world = Nominal
    /\ result = Null /\ metrics = EmptyDict /\ judge_result = Null /\ exc = ""
    /\ all_results = << >>
    /\ tracer = Null /\ trace_log = << >> /\ artifacts = EmptyDict
    /\ reports = EmptyDict
    /\ invoked = << >>
    /\ deviations = 0
    /\ api_calls = 0

\* main is about to run on a corpus directory that exists, with its manifest
Init ==
    /\ args \in ArgsSpace
    /\ env \in EnvSpace
    /\ questions \in QuestionFiles
    /\ pc = "main"
    /\ Idle

\* the event goes to the head of the log
LoggedFirst(log, stage, doc_ids, pages, latency_ms, payload) ==
    IF tracer = Null THEN log
    ELSE <<event_of(args.corpus_id, stage, mode, q_id, doc_ids, pages, latency_ms, payload)>>
           \o log

\* tracer.log_event(...) under `if tracer:`
Logged(log, stage, doc_ids, pages, latency_ms, payload) ==
    IF tracer = Null THEN log
    ELSE log_event(tracer, log, args.corpus_id, stage, mode, q_id, doc_ids, pages,
                   latency_ms, payload)

\* tracer.save_artifact(...) under `if tracer:`
Saved(files, artifact_type, content, metadata) ==
    IF tracer = Null THEN Ok(files)
    ELSE save_artifact(tracer, files, mode, q_id, artifact_type, content, metadata)

\* the loops the other way round: modes outside, questions inside
NextIterationModesOuter ==
    IF qi < Len(questions) THEN pc' = "run_mode" /\ qi' = qi + 1 /\ UNCHANGED mi
    ELSE IF mi < Len(modes_to_run) THEN pc' = "run_mode" /\ mi' = mi + 1 /\ qi' = 1
    ELSE pc' = "save" /\ UNCHANGED <<qi, mi>>

\* the loop of main moves to the next mode, the next question, or ends
NextIteration ==
    IF mi < Len(modes_to_run) THEN pc' = "run_mode" /\ mi' = mi + 1 /\ UNCHANGED qi
    ELSE IF qi < Len(questions) THEN pc' = "run_mode" /\ qi' = qi + 1 /\ mi' = 1
    ELSE pc' = "save" /\ UNCHANGED <<qi, mi>>

\* main, lines 361-419: no questions ends the run with 1; else the tracer is
\* created when tracing is on and the loop is entered
Main ==
    /\ pc = "main"
    /\ IF questions = << >>
       THEN pc' = "exit" /\ rc' = IntVal(1) /\ UNCHANGED tracer
       ELSE /\ pc' = "run_mode"
            /\ tracer' = IF args.trace THEN [enabled |-> TRUE, closed |-> FALSE] ELSE Null
            /\ UNCHANGED rc
    /\ UNCHANGED <<args, env, questions, qi, mi, world, result, metrics, judge_result, exc,
                   all_results, trace_log, artifacts, reports, invoked, deviations,
                   api_calls>>

\* run_mode, lines 80-99: the retrieve start event
RunModeStart ==
    /\ pc = "run_mode"
    /\ trace_log' = Logged(trace_log, "retrieve", {}, << >>, Null,
                           [query |-> Str(q_text), top_k |-> IntVal(args.top_k)])
    /\ pc' = "runner"
    /\ result' = Null /\ metrics' = EmptyDict /\ judge_result' = Null /\ exc' = ""
    /\ UNCHANGED <<args, env, questions, rc, qi, mi, world, all_results, tracer, artifacts,
                   reports, invoked, deviations, api_calls>>

\* the runner of a mode, lines 101-136
run_runner(m, w) ==
    IF m = "text_rag"
    THEN run_text_rag(env, w, args.corpus_id, args.top_k, args.max_chars_per_page,
                      doc_hint, Manifest)
    ELSE IF m = "optical"
    THEN run_optical(env, w, args.corpus_id, args.top_k, args.max_images, doc_hint,
                     Manifest, args.use_proxy_optical)
    ELSE IF m = "hybrid"
    THEN run_hybrid(env, w, args.corpus_id, args.top_k, args.max_images, doc_hint,
                    Manifest, args.use_proxy_optical)
    ELSE Raise("Unknown mode: " \o m)

\* run_mode, lines 101-138: the mode runner is called; what it raises is
\* caught at line 267.  A runner that misses a credential asks nothing of
\* the outside.
CallModeRunner ==
    /\ pc = "runner"
    /\ \E w \in {Nominal} \cup Deviations :
         /\ w /= Nominal =>
              deviations < MaxDeviations /\ env.GCP_PROJECT_ID /\ env.SUPERMEMORY_API_KEY
         /\ world' = w
         /\ deviations' = IF w = Nominal THEN deviations ELSE deviations + 1
         /\ result' = run_runner(mode, w)
    /\ invoked' = Append(invoked, [callee |-> "run_" \o mode, question |-> qi, mode |-> mi,
                                   lines |-> Len(trace_log)])
    /\ pc' = IF result'.raised THEN "except" ELSE "retrieved"
    /\ exc' = IF result'.raised THEN result'.msg ELSE ""
    /\ UNCHANGED <<args, env, questions, rc, qi, mi, metrics, judge_result, all_results,
                   tracer, trace_log, artifacts, reports, api_calls>>

\* list(set(r.get("doc_id", "") for r in retrieved)), as a set
doc_ids_of(retrieved) == {retrieved[k].doc_id : k \in 1..Len(retrieved)}

\* [r.get("page", 0) for r in retrieved if r.get("page")]
pages_of(retrieved) ==
    LET kept == SelectSeq([k \in 1..Len(retrieved) |-> k], LAMBDA k : retrieved[k].page /= 0)
    IN  [j \in 1..Len(kept) |-> retrieved[kept[j]].page]

\* run_mode, lines 138-162: the retrieve completion event, then the
\* retrieval artifact when something was retrieved
LogRetrieval ==
    /\ pc = "retrieved"
    /\ LET retrieved == result.value.retrieved
           log1 == Logged(trace_log, "retrieve", doc_ids_of(retrieved), pages_of(retrieved),
                          Elapsed, [result_count |-> IntVal(Len(retrieved))])
           saved == IF retrieved /= << >>
                    THEN Saved(artifacts, "retrieval", json_dumps(retrieved),
                               [count |-> IntVal(Len(retrieved))])
                    ELSE Ok(artifacts)
       IN  /\ trace_log' = log1
           /\ IF saved.raised
              THEN pc' = "except" /\ exc' = saved.msg /\ UNCHANGED artifacts
              ELSE pc' = "generate" /\ artifacts' = saved.value /\ UNCHANGED exc
    /\ UNCHANGED <<args, env, questions, rc, qi, mi, world, result, metrics, judge_result,
                   all_results, tracer, reports, invoked, deviations, api_calls>>

\* run_mode, lines 164-212: the generate start event, the metrics, the
\* evidence and answer artifacts, the generate completion event
Generate ==
    /\ pc = "generate"
    /\ LET r == result.value
           log1 == Logged(trace_log, "generate", {}, << >>, Null,
                          [has_evidence |-> Bool(r.evidence_pack /= "")])
           saved1 == IF r.evidence_pack /= ""
                     THEN Saved(artifacts, "evidence", r.evidence_pack, EmptyDict)
                     ELSE Ok(artifacts)
           saved2 == IF saved1.raised THEN saved1
                     ELSE Saved(saved1.value, "answer", r.answer_md, EmptyDict)
           log2 == Logged(log1, "generate", {}, << >>, Elapsed,
                          [answer_length |-> IntVal(Len(r.answer_md))])
       IN  /\ metrics' = compute_all_metrics(mode, r.answer_md, r.retrieved, r.evidence_pack)
           /\ IF saved2.raised
              THEN /\ pc' = "except" /\ exc' = saved2.msg
                   /\ trace_log' = log1
                   /\ UNCHANGED artifacts
              ELSE /\ pc' = "judge"
                   /\ trace_log' = log2
                   /\ artifacts' = saved2.value
                   /\ UNCHANGED exc
    /\ UNCHANGED <<args, env, questions, rc, qi, mi, world, result, judge_result,
                   all_results, tracer, reports, invoked, deviations, api_calls>>

\* run_mode, lines 214-234: the judge start event, then the judge.  Only the
\* LLM judge asks something of the outside.
Judge ==
    /\ pc = "judge"
    /\ trace_log' = Logged(trace_log, "judge", {}, << >>, Null,
                           [judge_mode |-> Str(args.judge)])
    /\ \E calls \in {NominalJudge} \cup JudgeCalls :
         /\ calls /= NominalJudge => deviations < MaxDeviations /\ args.judge = "llm"
         /\ deviations' = IF calls = NominalJudge THEN deviations ELSE deviations + 1
         /\ judge_result' =
              judge_answer(env, calls, result.value.answer_md, result.value.evidence_pack,
                           args.judge, Len(result.value.retrieved))
    /\ invoked' = Append(invoked, [callee |-> "judge_answer", question |-> qi, mode |-> mi,
                                   lines |-> Len(trace_log')])
    /\ pc' = "judged"
    /\ UNCHANGED <<args, env, questions, rc, qi, mi, world, result, metrics, exc,
                   all_results, tracer, artifacts, reports, api_calls>>

\* the result run_mode returns at lines 256-266
success_result ==
    [mode        |-> mode,
     question_id |-> q_id,
     question    |-> q_text,
     answer      |-> result.value.answer_md,
     retrieved   |-> result.value.retrieved,
     metrics     |-> metrics,
     judge       |-> judge_result,
     latency     |-> Elapsed,
     success     |-> TRUE]

\* the result run_mode returns at lines 276-287
failure_result ==
    [mode        |-> mode,
     question_id |-> q_id,
     question    |-> q_text,
     answer      |-> "",
     retrieved   |-> << >>,
     metrics     |-> EmptyDict,
     judge       |-> [score |-> Zero, rationale |-> Str("Error: " \o exc),
                      citation_correctness |-> Zero, coverage |-> Zero],
     latency     |-> Elapsed,
     success     |-> FALSE,
     error       |-> exc]

\* what only one iteration uses is forgotten when the iteration ends
EndIteration ==
    /\ world' = Nominal
    /\ result' = Null /\ metrics' = EmptyDict /\ judge_result' = Null /\ exc' = ""

\* run_mode, lines 236-266, and main, line 442: the judge artifact, the judge
\* completion event; the result is returned and appended
FinishIteration ==
    /\ pc = "judged"
    /\ LET saved == Saved(artifacts, "judge", json_dumps(judge_result),
                          [judge_mode |-> Str(args.judge)])
       IN  IF saved.raised
           THEN /\ pc' = "except" /\ exc' = saved.msg
                /\ UNCHANGED <<qi, mi, world, result, metrics, judge_result, all_results,
                               trace_log, artifacts>>
           ELSE /\ artifacts' = saved.value
                /\ trace_log' = Logged(trace_log, "judge", {}, << >>, Elapsed,
                                       [score |-> Num(judge_result.score)])
                /\ all_results' = Append(all_results, success_result)
                /\ NextIteration
                /\ EndIteration
    /\ UNCHANGED <<args, env, questions, rc, tracer, reports, invoked, deviations, api_calls>>

\* the handler forgets the failed iteration
ExceptDropsResult ==
    /\ pc = "except"
    /\ trace_log' = Logged(trace_log, "error", {}, << >>, Null, [error |-> Str(exc)])
    /\ NextIteration
    /\ EndIteration
    /\ UNCHANGED <<args, env, questions, rc, tracer, artifacts, reports, invoked,
                   deviations, api_calls, all_results>>

\* run_mode, lines 267-287, and main, line 442: the error event; the failed
\* result is returned and appended
Except ==
    /\ pc = "except"
    /\ trace_log' = Logged(trace_log, "error", {}, << >>, Null, [error |-> Str(exc)])
    /\ all_results' = Append(all_results, failure_result)
    /\ NextIteration
    /\ EndIteration
    /\ UNCHANGED <<args, env, questions, rc, tracer, artifacts, reports, invoked,
                   deviations, api_calls>>

(***************************************************************************)
(* run_eval.py: the reports                                                *)
(***************************************************************************)
RECURSIVE RSum(_)
RSum(xs) == IF xs = << >> THEN Zero ELSE RAdd(Head(xs), RSum(Tail(xs)))

\* sum(...) / len(...) over a non-empty list
Average(xs) == RMul(RSum(xs), Rat(1, Len(xs)))

\* one row of results.csv, lines 477-496
csv_row(r) ==
    [mode                    |-> r.mode,
     question_id             |-> r.question_id,
     question                |-> r.question,
     answer                  |-> r.answer,
     judge_score             |-> r.judge.score,
     judge_rationale         |-> r.judge.rationale,
     citation_correctness    |-> Get(r.judge, "citation_correctness", Zero),
     coverage                |-> Get(r.judge, "coverage", Zero),
     is_grounded             |-> Get(r.judge, "is_grounded", Bool(FALSE)),
     has_citations           |-> Get(r.metrics, "has_citations", FALSE),
     citation_coverage       |-> Get(r.metrics, "citation_coverage", Zero),
     citation_count          |-> Get(r.metrics, "citation_count", 0),
     retrieved_pages_count   |-> Get(r.metrics, "retrieved_pages_count", 0),
     estimated_context_units |-> Get(r.metrics, "estimated_context_units", 0),
     latency_seconds         |-> r.latency,
     success                 |-> r.success]

\* the results of one mode, in their order
mode_results(results, m) == SelectSeq(results, LAMBDA r : r.mode = m)

\* the statistics generate_summary_md prints for a mode, lines 304-334
mode_stats(results, m) ==
    LET rs == mode_results(results, m)
    IN  [avg_score   |-> Average([k \in 1..Len(rs) |-> rs[k].judge.score]),
         avg_context_units |->
             Average([k \in 1..Len(rs) |->
                        Rat(Get(rs[k].metrics, "estimated_context_units", 0), 1)]),
         avg_citation_coverage |->
             Average([k \in 1..Len(rs) |-> Get(rs[k].metrics, "citation_coverage", Zero)]),
         success_count |-> Cardinality({k \in 1..Len(rs) : rs[k].success}),
         count         |-> Len(rs)]

\* all_scores.sort(key=score, reverse=True): by falling score, results of
\* equal score in their order
by_score(results) ==
    LET n == Len(results)
        score(k) == results[k].judge.score
        rank(k) == Cardinality({j \in 1..n : RLt(score(k), score(j))})
                     + Cardinality({j \in 1..(k - 1) : score(j) = score(k)}) + 1
    IN  [p \in 1..n |-> results[CHOOSE k \in 1..n : rank(k) = p]]

PreviewChars == 200
ListedQuestions == 3

\* one entry of the best and worst lists, lines 341-347
summary_entry(r) ==
    [question_id |-> r.question_id, mode |-> r.mode, score |-> r.judge.score,
     question |-> r.question,
     answer |-> IF Len(r.answer) > PreviewChars
                THEN Prefix(r.answer, PreviewChars) \o "..." ELSE r.answer]

\* what summary.md says
generate_summary_md(results, modes, corpus_id) ==
    LET sorted == by_score(results)
        n == Len(sorted)
        first == IF n < ListedQuestions THEN n ELSE ListedQuestions
        shown == SelectSeq(modes, LAMBDA m : mode_results(results, m) /= << >>)
    IN  [corpus_id       |-> corpus_id,
         run_time        |-> Now,
         total_questions |-> Cardinality({results[k].question_id : k \in 1..n}),
         modes           |-> modes,
         statistics      |-> [j \in 1..Len(shown) |->
                                [mode |-> shown[j]] @@ mode_stats(results, shown[j])],
         best            |-> [j \in 1..first |-> summary_entry(sorted[j])],
         worst           |-> [j \in 1..first |-> summary_entry(sorted[n - first + j])]]

\* main, lines 449-473: results.json
WriteResultsJson ==
    /\ pc = "save"
    /\ reports' = ("results.json" :>
                     json_dumps([corpus_id       |-> args.corpus_id,
                                 run_timestamp   |-> Now,
                                 total_questions |-> Len(questions),
                                 modes_evaluated |-> modes_to_run,
                                 config          |-> [top_k |-> args.top_k,
                                                      max_chars_per_page |-> args.max_chars_per_page,
                                                      max_images |-> args.max_images,
                                                      judge_mode |-> args.judge,
                                                      use_proxy_optical |-> args.use_proxy_optical],
                                 results         |-> all_results])) @@ reports
    /\ pc' = "save_csv"
    /\ UNCHANGED <<args, env, questions, rc, qi, mi, world, result, metrics, judge_result,
                   exc, all_results, tracer, trace_log, artifacts, invoked, deviations,
                   api_calls>>

\* main, lines 475-501: results.csv
WriteResultsCsv ==
    /\ pc = "save_csv"
    /\ reports' = ("results.csv" :> [k \in 1..Len(all_results) |-> csv_row(all_results[k])])
                    @@ reports
    /\ pc' = "save_summary"
    /\ UNCHANGED <<args, env, questions, rc, qi, mi, world, result, metrics, judge_result,
                   exc, all_results, tracer, trace_log, artifacts, invoked, deviations,
                   api_calls>>

\* main ends without writing the summary
WriteSummarySkipped ==
    /\ pc = "save_summary"
    /\ pc' = "close"
    /\ UNCHANGED <<args, env, questions, rc, qi, mi, world, result, metrics, judge_result,
                   exc, all_results, tracer, trace_log, artifacts, invoked, deviations,
                   api_calls, reports>>

\* main, lines 503-508: summary.md
WriteSummary ==
    /\ pc = "save_summary"
    /\ reports' = ("summary.md" :> generate_summary_md(all_results, modes_to_run,
                                                       args.corpus_id)) @@ reports
    /\ pc' = "close"
    /\ UNCHANGED <<args, env, questions, rc, qi, mi, world, result, metrics, judge_result,
                   exc, all_results, tracer, trace_log, artifacts, invoked, deviations,
                   api_calls>>

\* main, lines 510-535: the tracer is closed and main returns 0
CloseTracer ==
    /\ pc = "close"
    /\ tracer' = IF tracer = Null THEN Null ELSE close(tracer)
    /\ pc' = "exit"
    /\ rc' = IntVal(0)
    /\ UNCHANGED <<args, env, questions, qi, mi, world, result, metrics, judge_result,
                   exc, all_results, trace_log, artifacts, reports, invoked, deviations,
                   api_calls>>

Next ==
    \/ Main
    \/ RunModeStart
    \/ CallModeRunner
    \/ LogRetrieval
    \/ Generate
    \/ Judge
    \/ FinishIteration
    \/ Except
    \/ WriteResultsJson
    \/ WriteResultsCsv
    \/ WriteSummary
    \/ CloseTracer

Spec == Init /\ [][Next]_vars

\* the places of main and run_mode the program can be at
Locations ==
    {"main", "run_mode", "runner", "retrieved", "generate", "judge", "judged", "except",
     "save", "save_csv", "save_summary", "close", "exit"}

\* the interpreter runs the next statement of a program that has not returned
Advance == pc /= "exit" /\ pc' \in Locations

\* main is one sequential process that nothing suspends: a run that has not
\* returned takes its next step.  Every step of Next moves pc, so this is
\* weak fairness of Next.
FairSpec == Spec /\ WF_pc(Advance)
(***************************************************************************)
(* The mode runners called on their own                                    *)
(***************************************************************************)
\* the worlds a runner is tried in: every service outcome with every set of
\* images on disk, and generation calls that answer, fail, or fail once
ModeWorlds ==
    [service    : ServiceCalls \cup {Always(Ok(<<R1, R7, R2>>))},
     gen_text   : {Always(Ok("Revenue grew in 2023 (D1 p.1).")), Always(Unavailable),
                   Flaky(1, Ok("Costs fell (D1 p.2). Staff too."))},
     gen_images : {Always(Ok("Revenue grew in 2023 (D1 p.1).")), Always(Unavailable)},
     images     : ImagesOnDisk]

InitModes ==
    /\ args \in {a \in ArgsSpace : a.mode = "all" /\ a.judge = "rule" /\ ~a.trace}
    /\ env \in EnvSpace
    /\ questions \in {<<Question(k)>> : k \in 1..2}
    /\ pc = "call"
    /\ rc = Null
    /\ qi = 1 /\ mi = 1
    /\ world \in ModeWorlds
    /\ result = Null /\ metrics = EmptyDict /\ judge_result = Null /\ exc = ""
    /\ all_results = << >>
    /\ tracer = Null /\ trace_log = << >> /\ artifacts = EmptyDict
    /\ reports = EmptyDict
    /\ invoked = << >>
    /\ deviations = 0
    /\ api_calls = 0

Returned(callee, outcome, calls) ==
    /\ pc = "call"
    /\ pc' = "returned"
    /\ result' = outcome
    /\ invoked' = <<[callee |-> callee, question |-> qi, mode |-> mi, lines |-> 0]>>
                    \o [i \in 1..Len(calls) |->
                          [callee |-> calls[i], question |-> qi, mode |-> mi, lines |-> 0]]
    /\ UNCHANGED <<args, env, questions, rc, qi, mi, world, metrics, judge_result, exc,
                   all_results, tracer, trace_log, artifacts, reports, deviations,
                   api_calls>>

CallTextRag ==
    Returned("run_text_rag",
             run_text_rag(env, world, args.corpus_id, args.top_k, args.max_chars_per_page,
                          doc_hint, Manifest),
             text_rag_calls(env, world, args.corpus_id, args.top_k, args.max_chars_per_page,
                            doc_hint, Manifest))

\* the flag is not passed on: the runner is called with use_proxy=False
CallOpticalWithoutFlag ==
    Returned("run_optical",
             run_optical(env, world, args.corpus_id, args.top_k, args.max_images, doc_hint,
                         Manifest, FALSE),
             optical_calls(env, world, args.corpus_id, args.top_k, args.max_images, doc_hint,
                           Manifest, FALSE))

CallOptical ==
    Returned("run_optical",
             run_optical(env, world, args.corpus_id, args.top_k, args.max_images, doc_hint,
                         Manifest, args.use_proxy_optical),
             optical_calls(env, world, args.corpus_id, args.top_k, args.max_images, doc_hint,
                           Manifest, args.use_proxy_optical))

\* run_hybrid calls nothing but run_optical
CallHybrid ==
    Returned("run_hybrid",
             run_hybrid(env, world, args.corpus_id, args.top_k, args.max_images, doc_hint,
                        Manifest, args.use_proxy_optical),
             optical_calls(env, world, args.corpus_id, args.top_k, args.max_images, doc_hint,
                           Manifest, args.use_proxy_optical))

NextModes == CallTextRag \/ CallOptical \/ CallHybrid

SpecModes == InitModes /\ [][NextModes]_vars

(***************************************************************************)
(* A tracer used by a caller of its own: any calls, in any order           *)
(***************************************************************************)
MaxCalls == 3

\* a text with a prefixed token and a UUID-shaped string in it
SecretText == "pk-test_9 of 0a1b2c3d-0a1b-0a1b-0a1b-0a1b2c3d4e5f"

\* LocalTracer(corpus_id, run_id, output_dir, enabled)
InitTracer ==
    /\ args \in {a \in ArgsSpace : a.mode = "all" /\ a.judge = "rule" /\ a.trace
                                    /\ ~a.use_proxy_optical}
    /\ env = [GCP_PROJECT_ID |-> TRUE, SUPERMEMORY_API_KEY |-> TRUE]
    /\ questions = << >>
    /\ pc = "api"
    /\ rc = Null
    /\ qi = 1 /\ mi = 1
    /\ world = Nominal
    /\ result = Null /\ metrics = EmptyDict /\ judge_result = Null /\ exc = ""
    /\ all_results = << >>
    /\ tracer \in [enabled : BOOLEAN, closed : {FALSE}]
    /\ trace_log = << >> /\ artifacts = EmptyDict
    /\ reports = EmptyDict
    /\ invoked = << >>
    /\ deviations = 0
    /\ api_calls = 0

\* the call is counted and noted with the number of lines written before it
Called(callee) ==
    /\ pc = "api"
    /\ api_calls < MaxCalls
    /\ api_calls' = api_calls + 1
    /\ invoked' = Append(invoked, [callee |-> callee, question |-> 0, mode |-> 0,
                                   lines |-> Len(trace_log)])

ApiLogEvent ==
    /\ Called("log_event")
    /\ \E stage \in {"retrieve", "error", "judge"}, q \in {Str("q1"), Null} :
         trace_log' = log_event(tracer, trace_log, args.corpus_id, stage, "optical", q, {},
                                << >>, IF stage = "error" THEN Null ELSE Elapsed,
                                IF stage = "error"
                                THEN [error |-> Str("key sk-live_1 refused")]
                                ELSE IF stage = "judge"
                                THEN [score |-> Num(Half),
                                      detail |-> Obj([rationale |-> Str(SecretText),
                                                      count |-> IntVal(1)])]
                                ELSE EmptyDict)
    /\ exc' = ""
    /\ UNCHANGED <<args, env, questions, pc, rc, qi, mi, world, result, metrics,
                   judge_result, all_results, tracer, artifacts, reports, deviations>>

ApiSaveArtifact ==
    /\ Called("save_artifact")
    /\ \E q \in {Str("q1"), IntVal(2)}, artifact_type \in {"answer", "judge"} :
         LET saved == save_artifact(tracer, artifacts, "optical", q, artifact_type,
                                    "key sk-live_1", EmptyDict)
         IN  IF saved.raised THEN exc' = saved.msg /\ UNCHANGED artifacts
             ELSE exc' = "" /\ artifacts' = saved.value
    /\ UNCHANGED <<args, env, questions, pc, rc, qi, mi, world, result, metrics,
                   judge_result, all_results, tracer, trace_log, reports, deviations>>

ApiClose ==
    /\ Called("close")
    /\ tracer' = close(tracer)
    /\ exc' = ""
    /\ UNCHANGED <<args, env, questions, pc, rc, qi, mi, world, result, metrics,
                   judge_result, all_results, trace_log, artifacts, reports, deviations>>

NextTracer == ApiLogEvent \/ ApiSaveArtifact \/ ApiClose

SpecTracer == InitTracer /\ [][NextTracer]_vars
(***************************************************************************)
(* The judge called alone: one judgement of one answer                     *)
(***************************************************************************)
MaxRetrieved == 2

JudgedAnswers ==
    {"Revenue grew 10%. (D1 p.2) Costs also rose.", "Revenue grew in 2023 (D1 p.1).",
     "Revenue is not in the report.", "Costs did not increase (D1 p.2).", NotFound, ""}

JudgedEvidence == {"", "[Page 1 | memory_id=m1]\nRevenue grew in 2023."}

\* what judge_answer is called with, and what the generation service
\* answers to the judge's prompt
JudgeInputs ==
    [answer : JudgedAnswers, evidence_pack : JudgedEvidence,
     retrieved_count : 0..MaxRetrieved, calls : JudgeCalls]

InitJudge ==
    /\ args \in {a \in ArgsSpace : a.mode = "all" /\ a.judge = "llm" /\ ~a.trace
                                    /\ ~a.use_proxy_optical}
    /\ env \in {e \in EnvSpace : e.SUPERMEMORY_API_KEY}
    /\ questions = <<Question(1)>>
    /\ pc = "judge_call"
    /\ rc = Null
    /\ qi = 1 /\ mi = 1
    /\ world \in JudgeInputs
    /\ result = Null /\ metrics = EmptyDict /\ judge_result = Null /\ exc = ""
    /\ all_results = << >>
    /\ tracer = Null /\ trace_log = << >> /\ artifacts = EmptyDict
    /\ reports = EmptyDict
    /\ invoked = << >>
    /\ deviations = 0
    /\ api_calls = 0

\* judge_answer(question, answer, evidence_pack, judge_mode=..., retrieved_count=...)
Judged(judge_mode) ==
    /\ pc = "judge_call"
    /\ pc' = "judge_returned"
    /\ judge_result' = judge_answer(env, world.calls, world.answer, world.evidence_pack,
                                    judge_mode, world.retrieved_count)
    /\ invoked' = <<[callee |-> "judge_answer", question |-> qi, mode |-> judge_mode,
                     lines |-> 0]>>
    /\ UNCHANGED <<args, env, questions, rc, qi, mi, world, result, metrics, exc,
                   all_results, tracer, trace_log, artifacts, reports, deviations,
                   api_calls>>

JudgeByRule == Judged("rule")

JudgeByLlm == Judged("llm")

NextJudge == JudgeByRule \/ JudgeByLlm

SpecJudge == InitJudge /\ [][NextJudge]_vars

(***************************************************************************)
(* utils.py: retry, one attempt at a time                                  *)
(*                                                                         *)
(* world holds the call: attempts, the backoff list, and calls[i], what fn *)
(* does when it is called for the i-th time.  qi is the loop variable      *)
(* attempt, api_calls counts the calls of fn, trace_log is the list of the *)
(* waits slept, exc is last_exception and result what retry returns or     *)
(* raises.                                                                 *)
(***************************************************************************)
MaxAttempts == 5

DefaultBackoff == <<1, 2, 4>>

\* the backoff lists of the callers: the default and that of pdf_extract
Backoffs == {DefaultBackoff, <<2, 4, 8, 16, 32>>}

FnOutcomes == {Ok("a"), Ok("b"), Raise("e1"), Raise("e2")}

RetryInputs ==
    UNION {[attempts : {n}, backoff : Backoffs, calls : [1..n -> FnOutcomes]] :
             n \in 1..MaxAttempts}

\* the waits run in a cycle through the list
wait_time_cycled(backoff, attempt) == backoff[(attempt % Len(backoff)) + 1]

\* backoff[min(attempt, len(backoff) - 1)]
wait_time(backoff, attempt) ==
    backoff[(IF attempt < Len(backoff) - 1 THEN attempt ELSE Len(backoff) - 1) + 1]

InitRetry ==
    /\ args \in {a \in ArgsSpace : a.mode = "all" /\ a.judge = "rule" /\ ~a.trace
                                    /\ ~a.use_proxy_optical}
    /\ env = [GCP_PROJECT_ID |-> TRUE, SUPERMEMORY_API_KEY |-> TRUE]
    /\ questions = << >>
    /\ pc = "retry_call"
    /\ rc = Null
    /\ qi = 0 /\ mi = 1
    /\ world \in RetryInputs
    /\ result = Null /\ metrics = EmptyDict /\ judge_result = Null /\ exc = ""
    /\ all_results = << >>
    /\ tracer = Null /\ trace_log = << >> /\ artifacts = EmptyDict
    /\ reports = EmptyDict
    /\ invoked = << >>
    /\ deviations = 0
    /\ api_calls = 0

\* lines 78-86 without the sleep: fn is called; its value is returned, or
\* its exception is kept and, at the last attempt, raised
RetryAttempt ==
    /\ pc = "retry_call"
    /\ qi < world.attempts
    /\ api_calls' = api_calls + 1
    /\ LET outcome == world.calls[api_calls + 1]
       IN  IF ~outcome.raised
           THEN pc' = "retry_done" /\ result' = outcome /\ UNCHANGED exc
           ELSE /\ exc' = outcome.msg
                /\ IF qi < world.attempts - 1
                   THEN pc' = "retry_sleep" /\ UNCHANGED result
                   ELSE pc' = "retry_done" /\ result' = Raise(outcome.msg)
    /\ UNCHANGED <<args, env, questions, rc, qi, mi, world, metrics, judge_result,
                   all_results, tracer, trace_log, artifacts, reports, invoked,
                   deviations>>

\* lines 83-84: time.sleep(wait_time), then the next turn of the loop
RetrySleep ==
    /\ pc = "retry_sleep"
    /\ trace_log' = Append(trace_log, wait_time(world.backoff, qi))
    /\ qi' = qi + 1
    /\ pc' = "retry_call"
    /\ UNCHANGED <<args, env, questions, rc, mi, world, result, metrics, judge_result,
                   exc, all_results, tracer, artifacts, reports, invoked, deviations,
                   api_calls>>

NextRetry == RetryAttempt \/ RetrySleep

\* fn and time.sleep return, so the loop keeps going until it returns
SpecRetry == InitRetry /\ [][NextRetry]_vars /\ WF_vars(NextRetry)

(***************************************************************************)
(* app/pipeline/qa.py: _query_supermemory, called alone                    *)
(*                                                                         *)
(* world holds the call (doc_id, top_k; the corpus is that of args) and    *)
(* service[i], what the i-th search call of the SDK client answers.        *)
(***************************************************************************)
\* a memory whose metadata names no corpus
R8 == [id |-> "m8", content |-> "Untagged.", metadata |-> [doc_id |-> "D3", page |-> 1]]

MaxResponse == 3

\* the responses of the service: up to MaxResponse memories, of the corpus,
\* of another corpus, or of none
QueryResponses ==
    UNION {[1..n -> {R1, R2, R6, R8}] : n \in 0..MaxResponse}

QueryInputs ==
    [service : {Always(Ok(r)) : r \in QueryResponses}
                 \cup {Always(Unavailable), Flaky(1, Ok(<<R6, R1>>))},
     doc_id : {Null, Str("D1")}, top_k : 1..TopK]

\* the filter that returns nothing when nothing matches
qa_filter_strict(results, doc_id, corpus_id, top_k) ==
    LET match(k) ==
            LET metadata == metadata_of(results[k])
            IN  IF doc_id /= Null
                THEN "doc_id" \in DOMAIN metadata /\ metadata.doc_id = doc_id.str
                ELSE ~("corpus_id" \in DOMAIN metadata /\ metadata.corpus_id /= ""
                         /\ metadata.corpus_id /= corpus_id)
        filtered_results == SelectSeq([k \in 1..Len(results) |-> k], match)
    IN  [j \in 1..(IF top_k < Len(filtered_results) THEN top_k ELSE Len(filtered_results))
           |-> results[filtered_results[j]]]

\* lines 110-144 of _call: the results kept of one response.  With a doc_id
\* only the doc_id is compared; without one a result is dropped only when
\* its metadata names another corpus; when nothing is kept the response is
\* returned as it came, cut at top_k.
qa_filter(results, doc_id, corpus_id, top_k) ==
    LET match(k) ==
            LET metadata == metadata_of(results[k])
            IN  IF doc_id /= Null
                THEN "doc_id" \in DOMAIN metadata /\ metadata.doc_id = doc_id.str
                ELSE ~("corpus_id" \in DOMAIN metadata /\ metadata.corpus_id /= ""
                         /\ metadata.corpus_id /= corpus_id)
        filtered_results == SelectSeq([k \in 1..Len(results) |-> k], match)
    IN  IF filtered_results /= << >>
        THEN [j \in 1..(IF top_k < Len(filtered_results) THEN top_k
                        ELSE Len(filtered_results)) |-> results[filtered_results[j]]]
        ELSE [j \in 1..(IF top_k < Len(results) THEN top_k ELSE Len(results)) |-> results[j]]

_query_supermemory(service, doc_id, corpus_id, top_k) ==
    retry([i \in 1..RetryAttempts |->
             IF service[i].raised THEN service[i]
             ELSE Ok(qa_filter(service[i].value, doc_id, corpus_id, top_k))],
          RetryAttempts)

InitQuery ==
    /\ args \in {a \in ArgsSpace : a.mode = "all" /\ a.judge = "rule" /\ ~a.trace
                                    /\ ~a.use_proxy_optical}
    /\ env = [GCP_PROJECT_ID |-> TRUE, SUPERMEMORY_API_KEY |-> TRUE]
    /\ questions = <<Question(1)>>
    /\ pc = "query"
    /\ rc = Null
    /\ qi = 1 /\ mi = 1
    /\ world \in QueryInputs
    /\ result = Null /\ metrics = EmptyDict /\ judge_result = Null /\ exc = ""
    /\ all_results = << >>
    /\ tracer = Null /\ trace_log = << >> /\ artifacts = EmptyDict
    /\ reports = EmptyDict
    /\ invoked = << >>
    /\ deviations = 0
    /\ api_calls = 0

\* results = _query_supermemory(client, question, doc_id=..., corpus_id=..., top_k=...)
QuerySupermemory ==
    /\ pc = "query"
    /\ pc' = "queried"
    /\ result' = _query_supermemory(world.service, world.doc_id, args.corpus_id, world.top_k)
    /\ UNCHANGED <<args, env, questions, rc, qi, mi, world, metrics, judge_result, exc,
                   all_results, tracer, trace_log, artifacts, reports, invoked,
                   deviations, api_calls>>

NextQuery == QuerySupermemory

SpecQuery == InitQuery /\ [][NextQuery]_vars

(***************************************************************************)
(* app/llm/vertex_gemini.py: _ensure_vertex_initialized, run by the        *)
(* threads of the per-page worker pool                                     *)
(*                                                                         *)
(* Each thread constructs a VertexGeminiClient.  world holds the module's  *)
(* globals: initialized is _vertex_initialized, lock is _vertex_lock (0    *)
(* for None, else the number of the Lock object), made the number of Lock  *)
(* objects created and held the Lock objects that are held.  pc[t] is the  *)
(* statement thread t stands at, result[t] its local variable lock, and    *)
(* api_calls counts the executions of vertexai.init.  A thread switch can  *)
(* fall between any two statements.                                        *)
(***************************************************************************)
MaxThreads == 2

Threads == 1..MaxThreads

InitThreads ==
    /\ args \in {a \in ArgsSpace : a.mode = "all" /\ a.judge = "rule" /\ ~a.trace
                                    /\ ~a.use_proxy_optical}
    /\ env \in {e \in EnvSpace : e.SUPERMEMORY_API_KEY}
    /\ questions = << >>
    /\ pc = [t \in Threads |-> "check"]
    /\ rc = Null
    /\ qi = 1 /\ mi = 1
    /\ world = [initialized |-> FALSE, lock |-> 0, made |-> 0, held |-> {}]
    /\ result = [t \in Threads |-> 0]
    /\ metrics = EmptyDict /\ judge_result = Null /\ exc = ""
    /\ all_results = << >>
    /\ tracer = Null /\ trace_log = << >> /\ artifacts = EmptyDict
    /\ reports = EmptyDict
    /\ invoked = << >>
    /\ deviations = 0
    /\ api_calls = 0

\* thread t moves to the statement at
Goto(t, at) == pc' = [pc EXCEPT ![t] = at]

ThreadUnchanged ==
    UNCHANGED <<args, env, questions, rc, qi, mi, metrics, judge_result, exc, all_results,
                tracer, trace_log, artifacts, reports, invoked, deviations>>

\* line 42: if not _vertex_initialized
CheckInitialized(t) ==
    /\ pc[t] = "check"
    /\ Goto(t, IF world.initialized THEN "done" ELSE "get_lock")
    /\ UNCHANGED <<world, result, api_calls>>
    /\ ThreadUnchanged

\* line 33: if _vertex_lock is None
CheckLock(t) ==
    /\ pc[t] = "get_lock"
    /\ Goto(t, IF world.lock = 0 THEN "make_lock" ELSE "return_lock")
    /\ UNCHANGED <<world, result, api_calls>>
    /\ ThreadUnchanged

\* lines 34-35: _vertex_lock = threading.Lock()
MakeLock(t) ==
    /\ pc[t] = "make_lock"
    /\ world' = [world EXCEPT !.made = world.made + 1, !.lock = world.made + 1]
    /\ Goto(t, "return_lock")
    /\ UNCHANGED <<result, api_calls>>
    /\ ThreadUnchanged

\* lines 36 and 43: lock = _get_lock() gets the global as it is now
ReturnLock(t) ==
    /\ pc[t] = "return_lock"
    /\ result' = [result EXCEPT ![t] = world.lock]
    /\ Goto(t, "acquire")
    /\ UNCHANGED <<world, api_calls>>
    /\ ThreadUnchanged

\* line 44: with lock, entered when the thread's Lock object is free
Acquire(t) ==
    /\ pc[t] = "acquire"
    /\ result[t] \notin world.held
    /\ world' = [world EXCEPT !.held = world.held \cup {result[t]}]
    /\ Goto(t, "recheck")
    /\ UNCHANGED <<result, api_calls>>
    /\ ThreadUnchanged

\* lines 46-48: the second check; without a project id ValueError is raised
\* and leaves the with block
Recheck(t) ==
    /\ pc[t] = "recheck"
    /\ Goto(t, IF world.initialized THEN "release"
               ELSE IF ~env.GCP_PROJECT_ID THEN "release" ELSE "init")
    /\ UNCHANGED <<world, result, api_calls>>
    /\ ThreadUnchanged

\* line 53: vertexai.init(project=..., location=...)
VertexInit(t) ==
    /\ pc[t] = "init"
    /\ api_calls' = api_calls + 1
    /\ Goto(t, "set")
    /\ UNCHANGED <<world, result>>
    /\ ThreadUnchanged

\* line 54: _vertex_initialized = True
SetInitialized(t) ==
    /\ pc[t] = "set"
    /\ world' = [world EXCEPT !.initialized = TRUE]
    /\ Goto(t, "release")
    /\ UNCHANGED <<result, api_calls>>
    /\ ThreadUnchanged

\* the end of the with block releases the thread's Lock object
Release(t) ==
    /\ pc[t] = "release"
    /\ world' = [world EXCEPT !.held = world.held \ {result[t]}]
    /\ Goto(t, "done")
    /\ UNCHANGED <<result, api_calls>>
    /\ ThreadUnchanged

NextThreads ==
    \E t \in Threads :
       \/ CheckInitialized(t) \/ CheckLock(t) \/ MakeLock(t) \/ ReturnLock(t)
       \/ Acquire(t) \/ Recheck(t) \/ VertexInit(t) \/ SetInitialized(t) \/ Release(t)

SpecThreads == InitThreads /\ [][NextThreads]_vars

(***************************************************************************)
(* Properties of the orchestrator                                          *)
(***************************************************************************)
Last(xs) == xs[Len(xs)]

\* the number of (question, mode) pairs of the run
Pairs == Len(questions) * Len(modes_to_run)

\* a result has been appended by this step
Appended == Len(all_results') = Len(all_results) + 1

\* C1 (fault isolation).  An exception raised anywhere in an iteration ends
\* that iteration only: the step that handles it appends the result of the
\* failing (question, mode) pair with success=false and the exception message
\* in error; every other appended result has success=true; and a run that
\* has questions returns 0 with exactly N*M results.
C1_FaultIsolation ==
    /\ [](pc = "exit" => /\ (rc = IntVal(1)) = (questions = << >>)
                         /\ questions /= << >> => Len(all_results) = Pairs)
    /\ [][/\ pc = "except" =>
               /\ Appended
               /\ SubSeq(all_results', 1, Len(all_results)) = all_results
               /\ ~Last(all_results').success
               /\ Last(all_results').error = exc
               /\ Last(all_results').mode = mode
               /\ Last(all_results').question_id = q_id
          /\ (Appended /\ pc /= "except") =>
               /\ Last(all_results').success
               /\ "error" \notin DOMAIN Last(all_results')]_vars

\* a finished run of several pairs in which exactly one failed
C1_OneFailure ==
    /\ pc = "exit"
    /\ Pairs >= 3
    /\ Cardinality({k \in 1..Len(all_results) : ~all_results[k].success}) = 1
    /\ \E k \in 1..Len(all_results) :
         ~all_results[k].success /\ all_results[k].error = "503 service unavailable"

\* the three reports are in the results directory, written from the whole
\* result list: one row per pair, in results.json and in results.csv, and
\* every failed row carries its error message
FailedRows == {k \in 1..Len(all_results) : ~all_results[k].success}

ReportsWritten ==
    /\ DOMAIN reports = {"results.json", "results.csv", "summary.md"}
    /\ Len(all_results) = Pairs
    /\ reports["results.json"].json.results = all_results
    /\ Len(reports["results.csv"]) = Pairs
    /\ \A k \in FailedRows :
         /\ "error" \in DOMAIN reports["results.json"].json.results[k]
         /\ ~reports["results.csv"][k].success
         /\ reports["results.csv"][k].judge_rationale =
              Str("Error: " \o reports["results.json"].json.results[k].error)
    /\ reports["summary.md"].statistics /= << >>

VerdictFields == {"score", "rationale", "citation_correctness", "coverage", "is_grounded"}

\* C3 (verdicts are fully populated).  Every verdict in the result list has
\* the five fields score, rationale, citation_correctness, coverage and
\* is_grounded.
C3_VerdictComplete ==
    \A k \in 1..Len(all_results) : VerdictFields \subseteq DOMAIN all_results[k].judge

\* a failed iteration's verdict in the result list
C3_FailureVerdict ==
    \E k \in 1..Len(all_results) :
      /\ ~all_results[k].success
      /\ DOMAIN all_results[k].judge = VerdictFields \ {"is_grounded"}

\* C4 (empty retrieval means sentinel or failure).  Every result of the
\* orchestrator with an empty retrieved list either answers exactly
\* "Not found in provided documents." or is a failed iteration.
C4_EmptyRetrieved ==
    \A k \in 1..Len(all_results) :
      all_results[k].retrieved = << >> =>
        \/ all_results[k].answer = "Not found in provided documents."
        \/ ~all_results[k].success

\* a successful iteration that retrieved nothing
C4_SentinelResult ==
    \E k \in 1..Len(all_results) :
      /\ all_results[k].success
      /\ all_results[k].retrieved = << >>
      /\ all_results[k].answer = "Not found in provided documents."

\* every result carries a citation_coverage metric in [0,1] and a score in
\* [0,1]  (refuted: a failed iteration's metrics are empty)
C5_CoverageEverywhere ==
    \A k \in 1..Len(all_results) :
      /\ InUnit(all_results[k].judge.score)
      /\ "citation_coverage" \in DOMAIN all_results[k].metrics
      /\ InUnit(all_results[k].metrics.citation_coverage)

\* C5 (scores and coverage stay in range).  Every result has a judge score
\* in [0,1], with either judge and whatever numbers the generation service
\* returns; every successful result has a citation_coverage metric in [0,1];
\* a failed result has a zero score and no metrics at all, and its CSV row
\* reads citation_coverage as 0.
C5_ScoresInRange ==
    \A k \in 1..Len(all_results) :
      LET r == all_results[k]
      IN  /\ InUnit(r.judge.score)
          /\ InUnit(r.judge.citation_correctness)
          /\ InUnit(r.judge.coverage)
          /\ r.success => /\ "citation_coverage" \in DOMAIN r.metrics
                          /\ InUnit(r.metrics.citation_coverage)
          /\ ~r.success => /\ r.judge.score = Zero
                           /\ r.metrics = EmptyDict
                           /\ csv_row(r).citation_coverage = Zero

\* the LLM judge returned a score of 1.5 and the result holds 1
C5_ClampedVerdict ==
    \E k \in 1..Len(all_results) :
      /\ all_results[k].success
      /\ all_results[k].judge.rationale = Str("Great.")
      /\ all_results[k].judge.score = One
      /\ all_results[k].judge.citation_correctness = Zero

\* the calls of mode runners, in the order they were made
RunnerCalls == SelectSeq(invoked, LAMBDA c : c.callee /= "judge_answer")

QuestionOf(p) == ((p - 1) \div Len(modes_to_run)) + 1
ModeOf(p) == ((p - 1) % Len(modes_to_run)) + 1

\* C6 (iteration order).  Pairs run one after another, questions in input
\* order outside and modes in the requested order inside: the p-th runner
\* call and the p-th result are those of question (p-1) div M + 1 and mode
\* (p-1) mod M + 1, and a runner is called only after every earlier pair
\* has its result.
C6_IterationOrder ==
    /\ \A p \in 1..Len(all_results) :
         /\ all_results[p].mode = modes_to_run[ModeOf(p)]
         /\ all_results[p].question_id = questions[QuestionOf(p)].id
         /\ all_results[p].question = questions[QuestionOf(p)].question
    /\ \A p \in 1..Len(RunnerCalls) :
         /\ RunnerCalls[p].question = QuestionOf(p)
         /\ RunnerCalls[p].mode = ModeOf(p)
         /\ RunnerCalls[p].callee = "run_" \o modes_to_run[ModeOf(p)]
    /\ Len(RunnerCalls) \in {Len(all_results), Len(all_results) + 1}
    /\ Len(all_results) <= Pairs
    /\ pc \in Locations \ {"main", "exit"} =>
         Len(all_results) \in {(qi - 1) * Len(modes_to_run) + mi - 1, Pairs}

\* two questions under all three modes, all six pairs done
C6_SixResults ==
    /\ pc = "exit"
    /\ Len(questions) = 2 /\ Len(modes_to_run) = 3
    /\ Len(all_results) = 6
    /\ all_results[4].mode = "text_rag" /\ all_results[4].question_id = IntVal(2)

\* the pair an event belongs to, by its question id and mode
PairOf(e) ==
    CHOOSE p \in 1..Pairs :
      /\ questions[QuestionOf(p)].id = e.question_id
      /\ modes_to_run[ModeOf(p)] = e.mode

EventsOf(p) == SelectSeq(trace_log, LAMBDA e : PairOf(e) = p)

StagesOf(p) == [i \in 1..Len(EventsOf(p)) |-> EventsOf(p)[i].stage]

\* the events of a successful iteration: both retrieve events, both
\* generate events, both judge events
FullTrace == <<"retrieve", "retrieve", "generate", "generate", "judge", "judge">>

IsCompletion(e) == "latency_ms" \in DOMAIN e

HasScore(e) == "payload" \in DOMAIN e /\ "score" \in DOMAIN e.payload

\* C7 (causal order of trace events).  With tracing on, a successful
\* iteration's events are retrieve start, retrieve completion, generate,
\* generate completion, judge, judge completion with the score, in that
\* order; the runner is called between the two retrieve events and the judge
\* before the judge completion; a failed iteration's events are a proper
\* prefix of that sequence followed by exactly one error event; and the
\* events of an earlier iteration all precede those of a later one.
C7_TraceOrder ==
    args.trace =>
      /\ \A i \in 1..(Len(trace_log) - 1) :
           PairOf(trace_log[i]) <= PairOf(trace_log[i + 1])
      /\ \A p \in 1..Len(all_results) :
           IF all_results[p].success
           THEN /\ StagesOf(p) = FullTrace
                /\ ~IsCompletion(EventsOf(p)[1]) /\ IsCompletion(EventsOf(p)[2])
                /\ IsCompletion(EventsOf(p)[4])
                /\ IsCompletion(EventsOf(p)[6]) /\ HasScore(EventsOf(p)[6])
                /\ EventsOf(p)[6].payload.score = Num(all_results[p].judge.score)
           ELSE \E n \in 1..(Len(FullTrace) - 1) :
                  StagesOf(p) = SubSeq(FullTrace, 1, n) \o <<"error">>
      /\ \A p \in (Len(all_results) + 1)..Pairs :
           /\ Len(StagesOf(p)) <= Len(FullTrace)
           /\ StagesOf(p) = SubSeq(FullTrace, 1, Len(StagesOf(p)))
      /\ \A k \in 1..Len(invoked) :
           LET c == invoked[k]
               p == (c.question - 1) * Len(modes_to_run) + c.mode
               mine == {i \in 1..Len(trace_log) : PairOf(trace_log[i]) = p}
           IN  /\ c.lines \in mine
               /\ IF c.callee = "judge_answer"
                  THEN /\ trace_log[c.lines].stage = "judge"
                       /\ \A i \in mine : HasScore(trace_log[i]) => i > c.lines
                  ELSE /\ trace_log[c.lines].stage = "retrieve"
                       /\ ~IsCompletion(trace_log[c.lines])
                       /\ \A i \in mine : i >= c.lines
                       /\ \A i \in mine : IsCompletion(trace_log[i]) => i > c.lines
      /\ \A p \in 1..Pairs :
           /\ Len(EventsOf(p)) >= 2 =>
                \E k \in 1..Len(invoked) :
                  /\ invoked[k].callee /= "judge_answer"
                  /\ invoked[k].question = QuestionOf(p) /\ invoked[k].mode = ModeOf(p)
           /\ (\E i \in 1..Len(EventsOf(p)) : HasScore(EventsOf(p)[i])) =>
                \E k \in 1..Len(invoked) :
                  /\ invoked[k].callee = "judge_answer"
                  /\ invoked[k].question = QuestionOf(p) /\ invoked[k].mode = ModeOf(p)

\* a traced run that ended with a successful iteration followed by one that
\* failed after its retrieve completion
C7_SuccessThenFailure ==
    /\ pc = "exit" /\ args.trace
    /\ \E p \in 1..(Len(all_results) - 1) :
         /\ all_results[p].success /\ StagesOf(p) = FullTrace
         /\ ~all_results[p + 1].success
         /\ StagesOf(p + 1) = <<"retrieve", "retrieve", "error">>

(***************************************************************************)
(* Properties of the tracer                                                *)
(***************************************************************************)
\* the call this step makes
Calls(callee) == Len(invoked') = Len(invoked) + 1 /\ Last(invoked').callee = callee

LogEventCalls == SelectSeq(invoked, LAMBDA c : c.callee = "log_event")

\* C9 (append-only trace log).  While the tracer is open each log_event call
\* puts exactly one line at the end of the log, in the file when the call
\* returns; no step changes, removes or reorders a line already written, so
\* the k-th line is that of the k-th log_event call.
C9_AppendOnly ==
    /\ [][/\ Len(trace_log') >= Len(trace_log)
          /\ SubSeq(trace_log', 1, Len(trace_log)) = trace_log
          /\ (Calls("log_event") /\ tracer.enabled /\ ~tracer.closed) =>
               Len(trace_log') = Len(trace_log) + 1
          /\ ~Calls("log_event") => trace_log' = trace_log]_vars
    /\ [](tracer.enabled =>
            /\ Len(trace_log) <= Len(LogEventCalls)
            /\ ~tracer.closed => Len(trace_log) = Len(LogEventCalls)
            /\ \A k \in 1..Len(trace_log) : LogEventCalls[k].lines = k - 1)

\* two different lines written by an open tracer, the second just now
C9_TwoLines ==
    /\ tracer.enabled /\ ~tracer.closed
    /\ Len(trace_log) = 2
    /\ trace_log[1].stage = "error" /\ trace_log[2].stage = "retrieve"
    /\ Last(invoked).callee = "log_event"

(***************************************************************************)
(* Properties of the mode runners                                          *)
(***************************************************************************)
\* the credentials are there and the search comes back with no result
EmptyRetrieval ==
    /\ env.GCP_PROJECT_ID /\ env.SUPERMEMORY_API_KEY
    /\ retry(world.service, RetryAttempts) = Ok(<< >>)

\* C10 (empty retrieval).  Whichever mode runs, a search that returns the
\* empty list makes the runner return the answer
\* "Not found in provided documents." with retrieved = [] and no evidence,
\* and the runner does not raise.
C10_EmptyRetrievalSentinel ==
    (pc = "returned" /\ EmptyRetrieval) =>
      result = Ok([answer_md |-> "Not found in provided documents.",
                   retrieved |-> << >>, evidence_pack |-> ""])

\* the hybrid runner returned after a search that failed once and then
\* found nothing
C10_HybridFoundNothing ==
    /\ pc = "returned" /\ EmptyRetrieval
    /\ world.service = Flaky(1, Ok(<< >>))
    /\ invoked[1].callee = "run_hybrid"
    /\ ~result.raised /\ result.value.retrieved = << >>

\* the runner whose call has returned
Callee == invoked[1].callee

\* what an optical run returns, or raises, for the inputs and the outside
\* of this state
OpticalOutcome ==
    run_optical(env, world, args.corpus_id, args.top_k, args.max_images, doc_hint, Manifest,
                args.use_proxy_optical)

\* C11 (hybrid is optical).  For the same corpus, question, top_k,
\* max_images, doc hint and use_proxy, and the same answers of the retrieval
\* and generation services, a hybrid run returns what an optical run
\* returns, or raises the same error.
C11_HybridIsOptical ==
    (pc = "returned" /\ Callee = "run_hybrid") => result = OpticalOutcome

\* a hybrid run in proxy mode that returned pages, and the optical outcome
\* is the same
C11_HybridProxyReturned ==
    /\ pc = "returned" /\ Callee = "run_hybrid"
    /\ args.use_proxy_optical
    /\ ~result.raised /\ Len(result.value.retrieved) >= 2
    /\ result.value.evidence_pack /= ""
    /\ world.gen_text /= world.gen_images

Credentials == env.GCP_PROJECT_ID /\ env.SUPERMEMORY_API_KEY

\* what the search of this state's runner call comes back with
SearchOutcome == query_with_corpus_filter(world.service, args.corpus_id, doc_hint, args.top_k)

\* the results the runner can use: those with a page number and a content
UsablePages ==
    IF SearchOutcome.raised THEN << >>
    ELSE SelectSeq(SearchOutcome.value, LAMBDA r : _extract_result_info(r, Manifest) /= Null)

\* where the image of a usable result is looked for
PagePath(r) ==
    image_path(Get(metadata_of(r), "doc_id", or_empty(doc_hint)),
               _extract_result_info(r, Manifest).page_number)

\* the usable results whose image is on disk
LoadedPages == SelectSeq(UsablePages, LAMBDA r : PagePath(r) \in world.images)

ProxyAnswer == retry(world.gen_text, RetryAttempts)
ImageAnswer == retry(world.gen_images, RetryAttempts)

\* an optical run without use_proxy, with something usable retrieved, whose
\* images cannot be used: none loads, or the generation over them raises
ImagesUnusable ==
    /\ Credentials /\ ~args.use_proxy_optical
    /\ UsablePages /= << >>
    /\ LoadedPages = << >> \/ ImageAnswer.raised

\* C12 (optical fallback).  In an optical run without use_proxy and with a
\* usable retrieval result, when the page images fail to load or the
\* generation over the images raises, and proxy generation succeeds, the run
\* returns the proxy answer with the retrieved pages and their summaries as
\* evidence: it neither raises nor answers "not found".
C12_FallbackToProxy ==
    (pc = "returned" /\ Callee = "run_optical" /\ ImagesUnusable /\ ~ProxyAnswer.raised) =>
      /\ ~result.raised
      /\ result.value.answer_md = ProxyAnswer.value
      /\ result.value.retrieved /= << >>
      /\ result.value.evidence_pack /= ""

\* usable pages were retrieved, no image of them is on disk, proxy
\* generation would answer, and the run says "not found" with nothing
\* retrieved
C12_NotFoundWithoutImages ==
    /\ pc = "returned" /\ Callee = "run_optical"
    /\ ImagesUnusable /\ ~ProxyAnswer.raised
    /\ LoadedPages = << >>
    /\ result = Ok(NotFoundResult)

\* C13 (optical deduplicates pages).  In the result of an optical or hybrid
\* run no two retrieved items have the same (doc_id, page).
C13_NoDuplicatePage ==
    (pc = "returned" /\ Callee \in {"run_optical", "run_hybrid"} /\ ~result.raised) =>
      \A i, j \in 1..Len(result.value.retrieved) :
        (/\ result.value.retrieved[i].doc_id = result.value.retrieved[j].doc_id
         /\ result.value.retrieved[i].page = result.value.retrieved[j].page) => i = j

\* two memories of page 1 of D1 came back from the search and both are in
\* the retrieved list
C13_SamePageTwice ==
    /\ pc = "returned" /\ Callee = "run_optical" /\ ~result.raised
    /\ Len(result.value.retrieved) >= 2
    /\ result.value.retrieved[1].memory_id = "m1" /\ result.value.retrieved[2].memory_id = "m7"
    /\ result.value.retrieved[1].page = result.value.retrieved[2].page
    /\ result.value.retrieved[1].doc_id = result.value.retrieved[2].doc_id

\* the functions the returned runner called
CalledBy == {invoked[k].callee : k \in 2..Len(invoked)}

\* the summaries text of the usable pages
SummariesEvidence ==
    summaries_pack([j \in 1..Len(UsablePages) |->
                      [doc_id  |-> Get(metadata_of(UsablePages[j]), "doc_id", or_empty(doc_hint)),
                       page    |-> _extract_result_info(UsablePages[j], Manifest).page_number,
                       summary |-> Get(metadata_of(UsablePages[j]), "summary", "")]])

\* C14 (use_proxy forces proxy mode).  In an optical or hybrid run with
\* use_proxy no page image is loaded and the generation over images is not
\* called, whatever images are on disk; when pages were retrieved the answer
\* is that of the proxy generation, and the evidence the summaries of the
\* retrieved pages.
C14_ProxyForced ==
    (pc = "returned" /\ Callee \in {"run_optical", "run_hybrid"} /\ args.use_proxy_optical) =>
      /\ CalledBy \cap {"load_page_image", "generate_answer_with_images"} = {}
      /\ (~result.raised /\ result.value.retrieved /= << >>) =>
           /\ "generate_answer_proxy_optical" \in CalledBy
           /\ result.value.answer_md = ProxyAnswer.value
           /\ result.value.evidence_pack = SummariesEvidence
           /\ Len(result.value.retrieved) = Len(UsablePages)

\* an optical run with use_proxy, every image on disk and a working
\* generation over images, answered by the proxy generation
C14_ProxyWithImagesOnDisk ==
    /\ pc = "returned" /\ Callee = "run_optical" /\ args.use_proxy_optical
    /\ world.images = AllImages /\ ~ImageAnswer.raised
    /\ LoadedPages /= << >>
    /\ ~result.raised /\ result.value.answer_md = ProxyAnswer.value
    /\ ImageAnswer.value /= ProxyAnswer.value
    /\ CalledBy = {"query_with_corpus_filter", "generate_answer_proxy_optical"}

(***************************************************************************)
(* Properties of the judge                                                 *)
(***************************************************************************)
\* a judgement in this mode has returned
JudgedIn(judge_mode) == pc = "judge_returned" /\ invoked[1].mode = judge_mode

\* what the rule judge says of the judged answer and evidence
RuleVerdict(retrieved_count) ==
    judge_answer_rule(world.answer, world.evidence_pack, retrieved_count)

SameVerdict(v, w) ==
    /\ v.score = w.score
    /\ v.citation_correctness = w.citation_correctness
    /\ v.coverage = w.coverage
    /\ v.is_grounded = w.is_grounded

\* what retry hands the LLM judge of the generation service's answers
JudgeResponse == retry(world.calls, RetryAttempts)

\* the generation service is reachable and its text is not JSON
Unparseable == env.GCP_PROJECT_ID /\ JudgeResponse = Ok(Garbage)

\* the llm-mode verdict on unparseable text equals the rule-mode verdict on
\* the same answer, evidence and retrieved_count  (refuted: the fallback
\* judges with retrieved_count = 0)
C15_FallbackIsRuleMode ==
    (JudgedIn("llm") /\ Unparseable) =>
      SameVerdict(judge_result, RuleVerdict(world.retrieved_count))

\* C15 (LLM-judge fallback).  When the generation service returns text that
\* is not JSON, the llm-mode verdict is the rule judge's verdict on the same
\* answer and evidence with retrieved_count = 0: it equals the rule-mode
\* verdict when retrieved_count = 0, and differs from it in coverage when
\* retrieved_count > 0.
C15_FallbackIsRuleAtZero ==
    (JudgedIn("llm") /\ Unparseable) =>
      /\ judge_result = RuleVerdict(0)
      /\ world.retrieved_count = 0 =>
           SameVerdict(judge_result, RuleVerdict(world.retrieved_count))
      /\ world.retrieved_count > 0 =>
           judge_result.coverage /= RuleVerdict(world.retrieved_count).coverage

\* unparseable text for a cited answer with two pages retrieved: the
\* fallback verdict is not the rule-mode one
C15_FallbackWithPages ==
    /\ JudgedIn("llm") /\ Unparseable
    /\ world.retrieved_count = 2
    /\ world.answer = "Revenue grew in 2023 (D1 p.1)."
    /\ judge_result.score /= RuleVerdict(2).score

NumericFields == {"score", "citation_correctness", "coverage"}

\* every attempt of the judge's call failed, and not for safety
ServiceDown == JudgeResponse.raised /\ ~is_safety_error(JudgeResponse.msg)

\* the text is JSON, but not an object
WrongShape ==
    /\ ~JudgeResponse.raised /\ JudgeResponse.value /= Garbage
    /\ ~IsObj(JudgeResponse.value.json)

\* the text is a JSON object with a numeric field that is null or a word
NonNumeric ==
    /\ ~JudgeResponse.raised /\ JudgeResponse.value /= Garbage
    /\ IsObj(JudgeResponse.value.json)
    /\ \E f \in NumericFields \cap DOMAIN JudgeResponse.value.json.obj :
         JudgeResponse.value.json.obj[f] \in {Null, Str("high")}

\* C16 (the judge never fails).  In llm mode, whatever the generation
\* service does (valid JSON, JSON of another shape, non-numeric fields, text
\* that is not JSON, a safety rejection, an error at each of the three
\* attempts), judge_answer returns a verdict with the five fields and its
\* three numbers in [0,1]; when the answer of the service cannot be used the
\* verdict is the rule judge's.
C16_JudgeNeverFails ==
    JudgedIn("llm") =>
      /\ DOMAIN judge_result = VerdictFields
      /\ InUnit(judge_result.score)
      /\ InUnit(judge_result.citation_correctness)
      /\ InUnit(judge_result.coverage)
      /\ (~env.GCP_PROJECT_ID \/ ServiceDown \/ Unparseable \/ WrongShape \/ NonNumeric) =>
           judge_result = RuleVerdict(0)

\* the service answered {"score": "high"} and the verdict is the rule
\* judge's
C16_NonNumericScore ==
    /\ JudgedIn("llm") /\ env.GCP_PROJECT_ID
    /\ NonNumeric
    /\ JudgeResponse.value.json.obj.score = Str("high")
    /\ world.answer = "Revenue grew in 2023 (D1 p.1)."
    /\ judge_result = RuleVerdict(0)
    /\ judge_result.score /= Half

\* the attempt that ends the judge's retries was rejected for safety
SafetyRejected ==
    /\ env.GCP_PROJECT_ID
    /\ \E i \in 1..RetryAttempts :
         /\ world.calls[i] = Raise("Response blocked by safety filters")
         /\ \A j \in 1..(i - 1) : world.calls[j] = Unavailable

\* C17 (neutral verdict on a safety rejection).  When the generation service
\* rejects the judge's prompt for safety, the llm judgement is the fixed
\* neutral verdict: score 0.5, citation_correctness 0.5, coverage 0.5, not
\* grounded, whatever the answer, the evidence and the retrieved count.
C17_SafetyIsNeutral ==
    (JudgedIn("llm") /\ SafetyRejected) =>
      /\ judge_result.score = Half
      /\ judge_result.is_grounded = Bool(FALSE)
      /\ judge_result.citation_correctness = Half
      /\ judge_result.coverage = Half
      /\ judge_result.rationale = Str("Judge response blocked by safety filter")

\* a cited answer with its evidence, which the rule judge would score
\* otherwise, gets the neutral verdict
C17_NeutralForCitedAnswer ==
    /\ JudgedIn("llm") /\ SafetyRejected
    /\ world.answer = "Revenue grew in 2023 (D1 p.1)."
    /\ world.evidence_pack /= ""
    /\ judge_result.score = Half
    /\ judge_result.is_grounded = Bool(FALSE)
    /\ RuleVerdict(0).score /= Half
    /\ RuleVerdict(0).is_grounded = Bool(TRUE)

\* C18 (range of the rule verdict).  For every answer, every evidence (none
\* included, which the rule judge reads as the empty text) and every
\* retrieved count, the rule judge's score, citation_correctness and
\* coverage lie in [0,1].
C18_RuleVerdictInRange ==
    JudgedIn("rule") =>
      /\ InUnit(judge_result.score)
      /\ InUnit(judge_result.citation_correctness)
      /\ InUnit(judge_result.coverage)

\* a cited answer judged without evidence, with the greatest retrieved count
C18_RuleVerdictWithoutEvidence ==
    /\ JudgedIn("rule")
    /\ world.evidence_pack = ""
    /\ world.retrieved_count = MaxRetrieved
    /\ world.answer = "Revenue grew in 2023 (D1 p.1)."
    /\ judge_result = RuleVerdict(MaxRetrieved)
    /\ judge_result.citation_correctness = One
    /\ RLt(Half, judge_result.coverage) /\ RLt(judge_result.coverage, One)
    /\ RLt(Zero, judge_result.score) /\ RLt(judge_result.score, One)

\* two sentences, the second of which starts with the citation (D1 p.2)
TwoSentences == "Revenue grew 10%. (D1 p.2) Costs also rose."

\* citation_quality, the second component of the rule judge's score
CitationQuality == judge_result.rationale.rule[2]

\* C19 (citation coverage of the two-sentence example).  For the answer
\* "Revenue grew 10%. (D1 p.2) Costs also rose." the rule judge and the
\* metrics count one cited sentence out of two: citation_coverage = 0.5,
\* citation_correctness = 1.0 and citation_quality = 0.8.
C19_OneOfTwoCited ==
    (JudgedIn("rule") /\ world.answer = TwoSentences) =>
      /\ check_citations(world.answer).citation_coverage = Half
      /\ compute_citation_metrics(world.answer).citation_coverage = Half
      /\ judge_result.citation_correctness = One
      /\ CitationQuality = Rat(8, 10)

\* the example is cut at the dot of "p.2" into three pieces, none of which
\* holds a whole citation: coverage 0, quality 0.6
C19_NoSentenceCited ==
    /\ JudgedIn("rule") /\ world.answer = TwoSentences
    /\ Len(sentences_of(world.answer)) = 3
    /\ check_citations(world.answer).citation_coverage = Zero
    /\ compute_citation_metrics(world.answer).citation_coverage = Zero
    /\ check_citations(world.answer).citation_count = 1
    /\ judge_result.citation_correctness = One
    /\ CitationQuality = Rat(6, 10)

\* C20 (configuration errors).  When a credential is missing (the project id
\* of the generation service or the API key of the retrieval service) the
\* run aborts at startup: no mode runner is called and no result is
\* recorded for any (question, mode) pair.
C20_ConfigErrorIsFatal ==
    ~Credentials => (RunnerCalls = << >> /\ all_results = << >>)

\* without the project id the run went through every pair, each of which
\* failed on the same error, wrote its reports and ended with status 0
C20_EveryPairFailedOnConfig ==
    /\ ~env.GCP_PROJECT_ID
    /\ pc = "exit" /\ rc = IntVal(0)
    /\ Pairs >= 2
    /\ Len(RunnerCalls) = Pairs
    /\ Len(all_results) = Pairs
    /\ \A k \in 1..Pairs :
         /\ ~all_results[k].success
         /\ all_results[k].error = "GCP_PROJECT_ID not found in environment variables"
    /\ ReportsWritten

\* the text holds a substring one of the four patterns of redact_secrets
\* matches
KeyShaped(s) ==
    \E i \in 1..Len(s) :
       \/ key_ends(s, "sk-")[i] > 0 \/ key_ends(s, "pk-")[i] > 0
       \/ google_ends(s)[i] > 0 \/ uuid_ends(s)[i] > 0

\* the strings of a payload: its own and those one level inside a dict
PayloadStrings(payload) ==
    {payload[k].str : k \in {f \in DOMAIN payload : IsStr(payload[f])}}
      \cup UNION {{payload[k].obj[k2].str :
                     k2 \in {f \in DOMAIN payload[k].obj : IsStr(payload[k].obj[f])}} :
                  k \in {f \in DOMAIN payload : IsObj(payload[f])}}

\* the strings written to the trace log
LoggedStrings ==
    UNION {PayloadStrings(trace_log[k].payload) :
             k \in {j \in 1..Len(trace_log) : "payload" \in DOMAIN trace_log[j]}}

JsonArtifacts == {p \in DOMAIN artifacts : StartsAt(p, Len(p) - 4, ".json")}

\* the contents written to the artifact files
ArtifactStrings ==
    {artifacts[p].json.obj.content.str : p \in JsonArtifacts}
      \cup {artifacts[p] : p \in DOMAIN artifacts \ JsonArtifacts}

\* C21 (secret redaction).  No string of the trace log (payload values, at
\* top level and one level inside a dict) and no content of an artifact
\* file holds a key-shaped substring (sk-/pk-/AIza token, UUID).
C21_NoSecretWritten ==
    \A t \in LoggedStrings \cup ArtifactStrings : ~KeyShaped(t)

\* a judge artifact written with the token of its content in it, next to a
\* log line whose nested string was redacted
C21_SecretInJsonArtifact ==
    /\ "optical/q1/judge.json" \in DOMAIN artifacts
    /\ artifacts["optical/q1/judge.json"].json.obj.content = Str("key sk-live_1")
    /\ KeyShaped("key sk-live_1")
    /\ \E k \in 1..Len(trace_log) :
         /\ trace_log[k].stage = "judge"
         /\ trace_log[k].payload.detail.obj.rationale = Str("pk-*** of ***")

(***************************************************************************)
(* Properties of retry                                                     *)
(***************************************************************************)
Succeeded == {i \in 1..world.attempts : ~world.calls[i].raised}

NonDecreasing(xs) == \A i \in 1..Len(xs), j \in 1..Len(xs) : i <= j => xs[i] <= xs[j]

\* C22 (bounded, transparent retry).  retry(fn, attempts = n), n >= 1, calls
\* fn at most n times; it returns the value of the first successful call
\* and makes no call after it; when the n calls fail it raises the exception
\* of the last one; it sleeps once between two consecutive calls and never
\* after the last, the waits never decrease, and it always ends.
C22_BoundedRetry ==
    /\ [](/\ api_calls <= world.attempts
          /\ NonDecreasing(trace_log)
          /\ pc = "retry_call" => Len(trace_log) = api_calls
          /\ pc = "retry_sleep" => Len(trace_log) = api_calls - 1
          /\ pc = "retry_done" =>
               /\ Len(trace_log) = api_calls - 1
               /\ result = retry(world.calls, world.attempts)
               /\ api_calls = retry_calls(world.calls, world.attempts)
               /\ Succeeded /= {} =>
                    /\ api_calls = Least(Succeeded)
                    /\ result = world.calls[Least(Succeeded)]
               /\ Succeeded = {} =>
                    /\ api_calls = world.attempts
                    /\ result = world.calls[world.attempts])
    /\ <>(pc = "retry_done")

\* five attempts with the default list, all failed: waits 1, 2, 4, 4 and the
\* last exception raised
C22_FiveFailures ==
    /\ pc = "retry_done"
    /\ world.attempts = MaxAttempts /\ world.backoff = DefaultBackoff
    /\ api_calls = MaxAttempts
    /\ trace_log = <<1, 2, 4, 4>>
    /\ world.calls[MaxAttempts - 1] = Raise("e1")
    /\ result = Raise("e2")

(***************************************************************************)
(* Properties of the rule judge                                            *)
(***************************************************************************)
\* the answer holds the text "not found", whatever the case of its letters
SaysNotFound == Contains(lower(world.answer), "not found")

NotFoundScore == check_not_found_correctness(world.answer, world.retrieved_count)

\* C23 (not_found_score).  The score is 1.0 exactly when nothing was
\* retrieved and the answer says "not found", or something was retrieved
\* and the answer does not say "not found", and 0.0 otherwise; it enters
\* the verdict's coverage with weight 0.7.
C23_NotFoundScore ==
    JudgedIn("rule") =>
      /\ NotFoundScore =
           (IF \/ (world.retrieved_count = 0 /\ SaysNotFound)
               \/ (world.retrieved_count > 0 /\ ~SaysNotFound)
            THEN One ELSE Zero)
      /\ judge_result.coverage =
           RAdd(RMul(Rat(7, 10), NotFoundScore),
                RMul(Rat(3, 10), compute_length_penalty(world.answer)))

\* pages were retrieved and the answer, which does not say "not found" but
\* holds "not in" inside "not increase", scores 0.0
C23_NotIncreaseScoresZero ==
    /\ JudgedIn("rule")
    /\ world.answer = "Costs did not increase (D1 p.2)."
    /\ world.retrieved_count = MaxRetrieved
    /\ ~SaysNotFound
    /\ NotFoundScore = Zero
    /\ judge_result.coverage = Rat(15, 100)

\* the components of the rule score, from the judged answer and evidence
Groundedness == compute_groundedness_proxy(world.answer, world.evidence_pack)

WeightedCitationQuality ==
    RAdd(RMul(Rat(6, 10), check_citations(world.answer).citation_correctness),
         RMul(Rat(4, 10), check_citations(world.answer).citation_coverage))

WeightedCompleteness ==
    RAdd(RMul(Rat(7, 10), NotFoundScore),
         RMul(Rat(3, 10), compute_length_penalty(world.answer)))

WeightedScore ==
    RAdd(RAdd(RMul(Rat(45, 100), Groundedness), RMul(Rat(35, 100), WeightedCitationQuality)),
         RMul(Rat(20, 100), WeightedCompleteness))

\* C24 (rule score).  The rule judge's score is 0.45 groundedness + 0.35
\* citation_quality + 0.20 completeness, brought into [0,1], with
\* citation_quality = 0.6 citation_correctness + 0.4 citation_coverage and
\* completeness = 0.7 not_found_score + 0.3 length_penalty; it is a function
\* of the answer, the evidence and the retrieved count alone.
C24_WeightedScore ==
    JudgedIn("rule") =>
      /\ judge_result.score = RMax(Zero, RMin(One, WeightedScore))
      /\ judge_result.rationale.rule =
           <<Groundedness, WeightedCitationQuality, WeightedCompleteness>>
      /\ judge_result.coverage = WeightedCompleteness

\* a grounded, cited, short answer with pages retrieved:
\* 0.45 * 1 + 0.35 * 0.6 + 0.20 * 0.85 = 0.83
C24_ScoreOfGroundedAnswer ==
    /\ JudgedIn("rule")
    /\ world.answer = "Revenue grew in 2023 (D1 p.1)."
    /\ world.evidence_pack /= ""
    /\ world.retrieved_count = 1
    /\ Groundedness = One
    /\ WeightedCitationQuality = Rat(6, 10)
    /\ WeightedCompleteness = Rat(85, 100)
    /\ judge_result.score = Rat(83, 100)

(***************************************************************************)
(* Properties of the evidence pack                                         *)
(***************************************************************************)
\* the text-RAG call of this state returned a pack
TextRagPack == pc = "returned" /\ Callee = "run_text_rag" /\ ~result.raised
                 /\ result.value.evidence_pack /= ""

EvidencePack == result.value.evidence_pack

\* where the items of the pack start: at 1 and after every separator
ItemStarts ==
    {1} \cup {i + Len(SectionSeparator) :
                i \in {j \in 1..Len(EvidencePack) : StartsAt(EvidencePack, j, SectionSeparator)}}

\* the k-th item of the pack, the separators left out
PackItem(k) ==
    LET start == CHOOSE i \in ItemStarts : Cardinality({j \in ItemStarts : j < i}) = k - 1
        later == {j \in ItemStarts : j > start}
    IN  SubSeq(EvidencePack, start,
               IF later = {} THEN Len(EvidencePack)
               ELSE Least(later) - Len(SectionSeparator) - 1)

ItemHeader(item) == SubSeq(item, 1, IndexFrom(item, "\n", 1) - 1)
ItemContent(item) == SubSeq(item, IndexFrom(item, "\n", 1) + 1, Len(item))

HeaderOf(r) ==
    "[Page " \o ToString(_extract_result_info(r, Manifest).page_number)
       \o " | memory_id=" \o _extract_result_info(r, Manifest).memory_id \o "]"

\* C25 (bounds of the evidence pack).  The pack of a text-RAG run holds at
\* most top_k items, one per usable result in the service's order, and the
\* content of each item is at most max_chars_per_page characters long.
C25_PackWithinCap ==
    TextRagPack =>
      /\ Cardinality(ItemStarts) <= args.top_k
      /\ Cardinality(ItemStarts) = Len(UsablePages)
      /\ \A k \in 1..Cardinality(ItemStarts) :
           /\ ItemHeader(PackItem(k)) = HeaderOf(UsablePages[k])
           /\ Len(ItemContent(PackItem(k))) <= args.max_chars_per_page

\* the first item holds the first max_chars_per_page characters of its
\* page followed by the truncation mark
C25_ItemLongerThanCap ==
    /\ TextRagPack
    /\ Cardinality(ItemStarts) = args.top_k
    /\ ItemHeader(PackItem(1)) = "[Page 1 | memory_id=m1]"
    /\ ItemContent(PackItem(1)) = "Revenue grew... [truncated]"
    /\ Len(ItemContent(PackItem(1))) = args.max_chars_per_page + Len(TruncationMark)

(***************************************************************************)
(* Properties of the summary report                                        *)
(***************************************************************************)
SummaryWritten == "summary.md" \in DOMAIN reports

Summary == reports["summary.md"]

ScoreOf(k) == all_results[k].judge.score

\* how many of the results are listed in each list
Listed == IF Len(all_results) < ListedQuestions THEN Len(all_results) ELSE ListedQuestions

\* the place of result k from the top and from the bottom of the scores,
\* results of equal score in the order of the run
PlaceFromTop(k) ==
    Cardinality({j \in 1..Len(all_results) : RLt(ScoreOf(k), ScoreOf(j))})
      + Cardinality({j \in 1..(k - 1) : ScoreOf(j) = ScoreOf(k)}) + 1

PlaceFromBottom(k) ==
    Cardinality({j \in 1..Len(all_results) : RLt(ScoreOf(j), ScoreOf(k))})
      + Cardinality({j \in 1..(k - 1) : ScoreOf(j) = ScoreOf(k)}) + 1

\* the result an entry of a list stands for
ResultOf(entry) == CHOOSE k \in 1..Len(all_results) : summary_entry(all_results[k]) = entry

\* C26 (best and worst lists).  The summary lists the 3 highest-scoring and
\* the 3 lowest-scoring results (all when there are fewer); of results with
\* equal scores the one produced earlier in the run is selected, and is
\* listed first.
C26_TiesToEarlier ==
    SummaryWritten =>
      /\ Len(Summary.best) = Listed /\ Len(Summary.worst) = Listed
      /\ \A j \in 1..Listed :
           PlaceFromTop(ResultOf(Summary.best[j])) = j
      /\ {ResultOf(Summary.worst[j]) : j \in 1..Listed} =
           {k \in 1..Len(all_results) : PlaceFromBottom(k) <= Listed}
      /\ \A i \in 1..Listed, j \in 1..Listed :
           (i < j /\ Summary.worst[i].score = Summary.worst[j].score) =>
             ResultOf(Summary.worst[i]) < ResultOf(Summary.worst[j])

\* six results of the same score: the best list holds the first three of
\* the run, the worst list the last three
C26_WorstAreTheLatest ==
    /\ SummaryWritten
    /\ Len(all_results) = 6
    /\ \A k \in 1..6 : ScoreOf(k) = ScoreOf(1)
    /\ \A k \in 1..6 : all_results[k].success
    /\ \A j \in 1..3 : ResultOf(Summary.best[j]) = j
    /\ \A j \in 1..3 : ResultOf(Summary.worst[j]) = 3 + j

(***************************************************************************)
(* Properties of the shared retrieval query                                *)
(***************************************************************************)
\* a query by corpus alone has returned
CorpusQueried == pc = "queried" /\ world.doc_id = Null /\ ~result.raised

\* the response the query was answered from
Response == retry(world.service, RetryAttempts).value

FirstOf(xs, n) == SubSeq(xs, 1, IF n < Len(xs) THEN n ELSE Len(xs))

OtherCorpus(r) ==
    /\ "corpus_id" \in DOMAIN metadata_of(r)
    /\ metadata_of(r).corpus_id \notin {"", args.corpus_id}

\* the results of the response that the corpus filter lets through
Matching == SelectSeq(Response, LAMBDA r : ~OtherCorpus(r))

\* C27 as stated: with fewer than top_k matching results the query returns
\* the unfiltered response (cut at top_k) instead of the matching ones.
C27_FallbackBelowTopK ==
    (CorpusQueried /\ Len(Matching) < world.top_k) =>
      result.value = FirstOf(Response, world.top_k)

\* C27 (retrieval-filter fallback).  A query by corpus returns the matching
\* results (those whose metadata does not name another corpus), at most
\* top_k of them and in the service's order, whenever there is at least
\* one, however few; only when no result matches does it return the
\* unfiltered response cut at top_k, and then every result returned is of
\* another corpus.
C27_FallbackWhenNoneMatch ==
    CorpusQueried =>
      /\ Len(result.value) <= world.top_k
      /\ Matching /= << >> =>
           /\ result.value = FirstOf(Matching, world.top_k)
           /\ \A k \in 1..Len(result.value) : ~OtherCorpus(result.value[k])
      /\ Matching = << >> =>
           /\ result.value = FirstOf(Response, world.top_k)
           /\ \A k \in 1..Len(result.value) : OtherCorpus(result.value[k])

\* nothing of corpus c1 in the response: the memory of corpus c2 is returned
C27_OtherCorpusReturned ==
    /\ CorpusQueried
    /\ Response = <<R6, R6>>
    /\ world.top_k = TopK
    /\ Matching = << >>
    /\ result.value = <<R6, R6>>
    /\ metadata_of(result.value[1]).corpus_id = "c2"

(***************************************************************************)
(* Properties of the generation client's initialization                    *)
(***************************************************************************)
\* the threads inside the with block
InSection == {t \in Threads : pc[t] \in {"recheck", "init", "set", "release"}}

\* C28 (thread-safe initialization).  At most one thread is inside the
\* initialization section at a time, and vertexai.init is executed at most
\* once.
C28_InitOnce ==
    /\ Cardinality(InSection) <= 1
    /\ api_calls <= 1

\* two threads hold two different Lock objects, and vertexai.init has run
\* twice
C28_TwoLocksTwoInits ==
    /\ Cardinality(InSection) = 2
    /\ result[1] /= result[2]
    /\ world.held = {result[1], result[2]}
    /\ world.made = 2
    /\ api_calls = 2

(***************************************************************************)
(* Properties of the retrieval of the evaluation modes                     *)
(***************************************************************************)
\* the memory is of the requested corpus, and of the hinted document when
\* the question names one
InCorpus(r) ==
    /\ "corpus_id" \in DOMAIN metadata_of(r)
    /\ metadata_of(r).corpus_id = args.corpus_id
    /\ doc_hint /= Null =>
         ("doc_id" \in DOMAIN metadata_of(r) /\ metadata_of(r).doc_id = doc_hint.str)

\* a runner has returned from a search that the service answered
Searched == pc = "returned" /\ Credentials /\ ~SearchOutcome.raised

\* C29 (corpus isolation of the modes).  Whatever the service returns, the
\* results query_with_corpus_filter hands to a runner are the memories of
\* the requested corpus (and of the hinted document) of the response, the
\* first top_k of them in the response's order; and every item of the
\* runner's retrieved list is one of these.
C29_CorpusIsolation ==
    Searched =>
      /\ Len(SearchOutcome.value) <= args.top_k
      /\ \A k \in 1..Len(SearchOutcome.value) : InCorpus(SearchOutcome.value[k])
      /\ SearchOutcome.value = FirstOf(SelectSeq(Response, InCorpus), args.top_k)
      /\ ~result.raised =>
           \A k \in 1..Len(result.value.retrieved) :
              \E j \in 1..Len(SearchOutcome.value) :
                 /\ SearchOutcome.value[j].id = result.value.retrieved[k].memory_id
                 /\ InCorpus(SearchOutcome.value[j])

\* a response of five memories that starts with one of corpus c2: the runner
\* gets the first three of corpus c1
C29_OtherCorpusDropped ==
    /\ Searched /\ ~result.raised
    /\ Response = <<R6, R1, R3, R2, R1>>
    /\ doc_hint = Null
    /\ SearchOutcome.value = <<R1, R3, R2>>
    /\ Len(result.value.retrieved) = 3
    /\ \A k \in 1..3 : result.value.retrieved[k].memory_id /= "x1"

(***************************************************************************)
(* Properties of the pages an optical run answers from                     *)
(***************************************************************************)
\* the results whose images run_optical hands to generate_answer_with_images:
\* the loaded ones, cut to max_images when there are more
SentPages ==
    IF Len(LoadedPages) > args.max_images THEN Prefix(LoadedPages, args.max_images)
    ELSE LoadedPages

\* the document and page a retrieved item names for a result
Named(r) ==
    [doc_id |-> Get(metadata_of(r), "doc_id", or_empty(doc_hint)),
     page   |-> _extract_result_info(r, Manifest).page_number]

\* the documents and pages of the returned retrieved list
RetrievedPages ==
    [k \in 1..Len(result.value.retrieved) |->
       [doc_id |-> result.value.retrieved[k].doc_id, page |-> result.value.retrieved[k].page]]

\* run_optical without use_proxy has returned the answer of the generation
\* over the page images
AnsweredFromImages ==
    /\ pc = "returned" /\ invoked[1].callee = "run_optical"
    /\ Credentials /\ ~args.use_proxy_optical
    /\ LoadedPages /= << >> /\ ~ImageAnswer.raised
    /\ ~result.raised /\ result.value.answer_md = ImageAnswer.value

\* C30 (retrieved pages are the pages sent).  In an optical run without
\* use_proxy that answers from images, the retrieved list names exactly the
\* pages whose images were sent to the generation service, in the same
\* order, also when some images fail to load or the images are cut to
\* max_images; and at most max_images images are sent.
C30_RetrievedAreSent ==
    AnsweredFromImages =>
      /\ Len(SentPages) <= args.max_images
      /\ RetrievedPages = [k \in 1..Len(SentPages) |-> Named(SentPages[k])]

\* pages 1 and 2 of D1 are retrieved and only the image of page 2 is on
\* disk: one image is sent, and the retrieved list names both pages
C30_UnsentPageRetrieved ==
    /\ AnsweredFromImages
    /\ SearchOutcome.value = <<R1, R2>>
    /\ world.images = {image_path("D1", 2)}
    /\ [k \in 1..Len(SentPages) |-> Named(SentPages[k])] = <<[doc_id |-> "D1", page |-> 2]>>
    /\ RetrievedPages = <<[doc_id |-> "D1", page |-> 1], [doc_id |-> "D1", page |-> 2]>>
====
